---- MODULE Spec2Model ----
(***************************************************************************)
(* A model of codesearch-rs: the varint codec, the posting-list delta      *)
(* encoding, the index writer (add / flush_post / flush), the index        *)
(* reader, the index merger and the regex-to-trigram query planner.        *)
(*                                                                         *)
(* Number representation.  TLC integers are 32-bit signed, so a Rust u32   *)
(* is modelled as a pair <<hi, lo>> of 16-bit limbs and a u64 as a triple  *)
(* <<top, hi, lo>> (top = bits 32 and up).  Sizes, offsets and counters    *)
(* that stay small in every modelled run are plain naturals.               *)
(***************************************************************************)
EXTENDS Integers, Sequences, FiniteSets, TLC

VARIABLES
    vpc,        \* varint codec run: "start" | "encoded" | "decoded"
    vn,         \* the u32 handed to the encoder
    vkind,      \* which encoder ran: "lib" (libvarint) | "idx" (index/varint.rs)
    vbytes,     \* the bytes written
    vres,       \* the result of read_uvarint on vbytes
    ppc,        \* posting-list run: "start" | "written" | "read"
    plist,      \* the strictly increasing FileIDs handed to the encoder
    pkind,      \* "writer" (IndexWriter::merge_post) | "merge" (PostDataWriter)
    pbytes,     \* the delta list written after the 3-byte trigram
    pcount,     \* the file count recorded in the posting-list index
    pread,      \* what the reader's posting-list iterator yields
    wpc,        \* index writer run: "open" | "flushed" | "read"
    iw,         \* the IndexWriter; after flush iw.index is the index file
    added,      \* the files add accepted, with the FileID each was given
    nadds,      \* number of add calls made
    wres,       \* result of the last writer call
    ir,         \* the IndexReader opened on the flushed index
    mpc,        \* merge run: "built" | "merged" | "read"
    mtree1,     \* the source tree indexed into src1 (the older index A)
    mtree2,     \* the source tree indexed into src2 (the newer index B)
    msrc1,      \* the bytes of index file src1
    msrc2,      \* the bytes of index file src2
    mdest,      \* the outcome of merge: the bytes of dest, or a panic
    mir,        \* the IndexReader opened on dest
    rpc,        \* regex query run: "parsed" | "analyzed" | "done"
    rexpr,      \* the parsed regex (a regex_syntax Expr)
    rinfo,      \* RegexInfo::new(rexpr)
    rres,       \* the PostSet IndexReader::query returned for rinfo.query
    tpc,        \* trigram stream run: "open"
    trd,        \* the TrigramReader
    tout,       \* the values its next() returned so far, in order
    tcalls,     \* number of next() calls made
    qpc,        \* the last reader call: "ready" (none) | "queried" | "unioned"
    qquery,     \* the Query handed to IndexReader::query, if that was the call
    qres,       \* the PostSet it returned
    por,        \* list, trigram and result of PostReader::or, if that was it
    ipc,        \* implies run: "drawn" | "compared"
    ia,         \* three Query trees
    ib,
    ic,
    ires,       \* ia.implies(ia), ia.implies(ib), ib.implies(ic), ia.implies(ic)
    upc,        \* cindex update run: the step of main that comes next
    ufs,        \* the files at the index path, at <index>~ and at <index>~~
    uold,       \* the bytes of the previous index
    unew,       \* the source tree cindex is run on
    hpc,        \* PostHeap run: "adding" | "collected"
    hruns,      \* the runs handed to add_mem, in order
    hch,        \* PostHeap.ch, the vector of chunks
    hout,       \* the entries into_iter() yielded
    dpc,        \* decoder run: "start" | "decoded"
    dbytes,     \* the bytes handed to read_uvarint
    dres,       \* what read_uvarint returned for them
    spc,        \* SparseSet run: "open"
    sset,       \* the SparseSet
    sghost,     \* the values inserted since the last clear or take_dense,
                \* each once, in order of first insertion
    stook,      \* what the last take_dense returned
    apc,        \* and/or run: "drawn" | "combined"
    aq,         \* two Query trees
    ar,
    aand,       \* aq.and(ar)
    aor,        \* aq.or(ar)
    zpc,        \* simplify_set run: "drawn" | "simplified"
    zset,       \* the prefix or suffix set handed to simplify_set
    zsuffix,    \* is_suffix
    zout,       \* the set simplify_set left in its place
    kpc,        \* cindex main thread: "walk" | "dropped" | "joined" | "panicked"
    kcpc,       \* cindex writer thread: "recv" | "flush" | "done" | "panicked"
    ktodo,      \* the paths walk_dir has still to visit, in order
    ksent,      \* the paths sent on the channel so far, in order
    kchan,      \* the channel's queue
    kseen,      \* the writer thread's `seen` set
    koffered    \* the paths handed to add_file so far, in order

varintVars == <<vpc, vn, vkind, vbytes, vres>>
postVars == <<ppc, plist, pkind, pbytes, pcount, pread>>
writerVars == <<wpc, iw, added, nadds, wres, ir>>
mergeVars == <<mpc, mtree1, mtree2, msrc1, msrc2, mdest, mir>>
regexVars == <<rpc, rexpr, rinfo, rres>>
trigramVars == <<tpc, trd, tout, tcalls>>
queryVars == <<qpc, qquery, qres, por>>
impliesVars == <<ipc, ia, ib, ic, ires>>
updateVars == <<upc, ufs, uold, unew>>
heapVars == <<hpc, hruns, hch, hout>>
decodeVars == <<dpc, dbytes, dres>>
sparseVars == <<spc, sset, sghost, stook>>
andorVars == <<apc, aq, ar, aand, aor>>
simplifyVars == <<zpc, zset, zsuffix, zout>>
pipeVars == <<kpc, kcpc, ktodo, ksent, kchan, kseen, koffered>>
lastVars == <<decodeVars, sparseVars, andorVars, simplifyVars, pipeVars>>
restVars ==
    <<trigramVars, queryVars, impliesVars, updateVars, heapVars, lastVars>>
vars == <<varintVars, postVars, writerVars, mergeVars, regexVars, restVars>>

\* ------------------------------------------------------------------------
\* u32 / u64 arithmetic on limbs
\* ------------------------------------------------------------------------
Limb == 2^16

AsU32(n) == <<n \div Limb, n % Limb>>

U32_MAX == <<Limb - 1, Limb - 1>>

U32Lt(a, b) == a[1] < b[1] \/ (a[1] = b[1] /\ a[2] < b[2])

wrapping_sub(a, b) ==
    LET lo     == a[2] - b[2]
        borrow == IF lo < 0 THEN 1 ELSE 0
    IN  <<(a[1] - b[1] - borrow + Limb) % Limb, (lo + Limb) % Limb>>

wrapping_add(a, b) ==
    LET lo == a[2] + b[2]
    IN  <<(a[1] + b[1] + (lo \div Limb)) % Limb, lo % Limb>>

\* x >> k on a u32, 0 < k < 32
Shr(x, k) ==
    IF k < 16
    THEN <<x[1] \div (2^k), (x[2] \div (2^k)) + (x[1] % (2^k)) * (2^(16 - k))>>
    ELSE <<0, x[1] \div (2^(k - 16))>>

\* (x & 0xff) as u8
LowByte(x) == x[2] % 256

\* b | 0x80 on a byte
Or80(b) == IF b >= 128 THEN b ELSE b + 128

\* x < (1 << k) on a u32
LtPow2(x, k) == IF k < 16 THEN x[1] = 0 /\ x[2] < 2^k ELSE x[1] < 2^(k - 16)

\* (d as u64) << s for a 7-bit d and s <= 56
Shl64(d, s) ==
    IF s < 16 THEN LET v == d * (2^s) IN <<0, v \div Limb, v % Limb>>
    ELSE IF s < 32 THEN LET v == d * (2^(s - 16)) IN <<v \div Limb, v % Limb, 0>>
    ELSE <<d * (2^(s - 32)), 0, 0>>

\* x | y on u64 values whose set bits are disjoint (x holds bits below s,
\* y = d << s), where | coincides with limb-wise addition
Or64(x, y) == <<x[1] + y[1], x[2] + y[2], x[3] + y[3]>>

U64Zero == <<0, 0, 0>>

\* (v as u32) of a u64
U64AsU32(v) == <<v[2], v[3]>>

\* (v as u64) of a u32
U32AsU64(x) == <<0, x[1], x[2]>>

\* ------------------------------------------------------------------------
\* libvarint: read_uvarint / write_uvarint
\* ------------------------------------------------------------------------
RECURSIVE read_uvarint_loop(_, _, _, _)
read_uvarint_loop(b, i, x, s) ==
    IF i >= Len(b) THEN [ok |-> FALSE, value |-> U64Zero, n |-> 0]
    ELSE LET c == b[i + 1] IN
         IF c < 128
         THEN IF i > 9 \/ (i = 9 /\ c > 1)
              THEN [ok |-> FALSE, value |-> U64Zero, n |-> i + 1]
              ELSE [ok |-> TRUE, value |-> Or64(x, Shl64(c, s)), n |-> i + 1]
         ELSE read_uvarint_loop(b, i + 1, Or64(x, Shl64(c % 128, s)), s + 7)

read_uvarint(b) == read_uvarint_loop(b, 0, U64Zero, 0)

\* write_uvarint with the shift of a byte-wise (not 7-bit) encoder
RECURSIVE write_uvarint_shift8(_)
write_uvarint_shift8(x) ==
    IF ~LtPow2(x, 7)
    THEN <<Or80(LowByte(x))>> \o write_uvarint_shift8(Shr(x, 8))
    ELSE <<LowByte(x)>>

RECURSIVE write_uvarint(_)
write_uvarint(x) ==
    IF ~LtPow2(x, 7)
    THEN <<Or80(LowByte(x))>> \o write_uvarint(Shr(x, 7))
    ELSE <<LowByte(x)>>

\* ------------------------------------------------------------------------
\* index/varint.rs: the branch-per-length encoder
\* ------------------------------------------------------------------------
index_write_uvarint(x) ==
    IF LtPow2(x, 7) THEN <<LowByte(x)>>
    ELSE IF LtPow2(x, 14) THEN
        <<Or80(LowByte(x)), LowByte(Shr(x, 7))>>
    ELSE IF LtPow2(x, 21) THEN
        <<Or80(LowByte(x)), LowByte(Shr(x, 7)), LowByte(Shr(x, 14))>>
    ELSE IF LtPow2(x, 28) THEN
        <<Or80(LowByte(x)), LowByte(Shr(x, 7)), LowByte(Shr(x, 14)),
          LowByte(Shr(x, 21))>>
    ELSE
        <<Or80(LowByte(x)), LowByte(Shr(x, 7)), LowByte(Shr(x, 14)),
          LowByte(Shr(x, 21)), LowByte(Shr(x, 21))>>

\* ------------------------------------------------------------------------
\* Posting lists: delta encoding by the writers, decoding by the reader
\* ------------------------------------------------------------------------
\* to_diffs: scan with the predecessor initialised to u32::MAX, then one 0
to_diffs(ids) ==
    [i \in 1..Len(ids) |->
        wrapping_sub(ids[i], IF i = 1 THEN U32_MAX ELSE ids[i - 1])]
    \o <<AsU32(0)>>

RECURSIVE Flatten(_)
Flatten(ss) == IF ss = <<>> THEN <<>> ELSE Head(ss) \o Flatten(Tail(ss))

\* IndexWriter::merge_post, the body of one posting list after its trigram:
\* every value of to_diffs goes through index::varint::write_uvarint and
\* the index entry records written - 1
merge_post_deltas(ids) ==
    LET diffs == to_diffs(ids)
    IN  [bytes |-> Flatten([i \in 1..Len(diffs) |-> index_write_uvarint(diffs[i])]),
         count |-> Len(diffs) - 1]

\* PostDataWriter::file_id for every id, then PostDataWriter::end_trigram
RECURSIVE post_data_writer_ids(_, _)
post_data_writer_ids(ids, last) ==
    IF ids = <<>> THEN <<>>
    ELSE write_uvarint(wrapping_sub(Head(ids), last))
         \o post_data_writer_ids(Tail(ids), Head(ids))

post_data_writer_list(ids) ==
    [bytes |-> post_data_writer_ids(ids, U32_MAX) \o write_uvarint(AsU32(0)),
     count |-> Len(ids)]

Drop(d, n) == SubSeq(d, n + 1, Len(d))

\* PostReader::next called until it returns false, restrict = None.
\* fileid is an i64 that starts at -1 and is only ever observed through
\* `fileid as u32`; it is kept as that residue (u32::MAX for -1).
RECURSIVE post_reader_run(_, _, _, _)
post_reader_run(d, count, fileid, acc) ==
    IF count <= 0 THEN [panic |-> FALSE, ids |-> acc]
    ELSE LET r == read_uvarint(d) IN
         IF ~r.ok \/ r.n <= 0 \/ r.value = U64Zero
         THEN [panic |-> TRUE, ids |-> acc]
         ELSE LET f == wrapping_add(fileid, U64AsU32(r.value))
              IN  post_reader_run(Drop(d, r.n), count - 1, f, Append(acc, f))

post_reader_list(d, count) == post_reader_run(d, count, U32_MAX, <<>>)

\* ------------------------------------------------------------------------
\* TrigramReader (writer/trigramiter.rs)
\* ------------------------------------------------------------------------
valid_utf8(c1, c2) ==
    IF c1 < 128 THEN (c2 < 128) \/ (192 <= c2 /\ c2 < 248)
    ELSE IF c1 < 192 THEN c2 < 248
    ELSE IF c1 < 248 THEN 128 <= c2 /\ c2 < 192
    ELSE FALSE

\* TrigramReader::new over a source holding the bytes src
TrigramReader_new(src, max_invalid, max_line_len) ==
    [src |-> src, pos |-> 0, current_value |-> 0, num_read |-> 0,
     inv_cnt |-> 0, max_invalid |-> max_invalid,
     line_len |-> 0, max_line_len |-> max_line_len, error |-> "none"]

\* TrigramReader::next; the result is the reader after the call and the
\* value returned: <<>> for None, <<t>> for Some(t)
\* a next that does not reset num_read when it returns the short value
next_at_end_keep(r) ==
    IF r.num_read > 0 /\ r.num_read < 3
    THEN [rd |-> r, out |-> <<r.current_value>>]
    ELSE [rd |-> r, out |-> <<>>]

\* the arms of next taken when next_char() is None
next_at_end(r) ==
    IF r.num_read > 0 /\ r.num_read < 3
    THEN [rd |-> [r EXCEPT !.num_read = 0], out |-> <<r.current_value>>]
    ELSE [rd |-> r, out |-> <<>>]

RECURSIVE TrigramReader_next(_)
TrigramReader_next(r) ==
    IF r.pos >= Len(r.src) THEN next_at_end(r)
    ELSE LET c  == r.src[r.pos + 1]
             cv == ((r.current_value % (2^16)) * 256) + c
             r1 == [r EXCEPT !.pos = r.pos + 1, !.num_read = r.num_read + 1,
                             !.current_value = cv]
             b1 == (cv \div 256) % 256
             b2 == cv % 256
         IN  IF r1.num_read < 3 THEN TrigramReader_next(r1)
             ELSE IF b1 = 0 \/ b2 = 0
             THEN [rd |-> [r1 EXCEPT !.error = "BinaryDataPresent"], out |-> <<>>]
             ELSE IF ~valid_utf8(b1, b2)
             THEN LET r2 == [r1 EXCEPT !.inv_cnt = r1.inv_cnt + 1] IN
                  IF r2.inv_cnt > r2.max_invalid
                  THEN [rd |-> [r2 EXCEPT !.error = "HighInvalidUtf8Ratio"],
                        out |-> <<>>]
                  ELSE TrigramReader_next(r2)
             ELSE IF r1.line_len > r1.max_line_len
             THEN [rd |-> [r1 EXCEPT !.error = "LineTooLong"], out |-> <<>>]
             ELSE [rd |-> [r1 EXCEPT !.line_len =
                                IF c = 10 THEN 0 ELSE r1.line_len + 1],
                   out |-> <<cv>>]

\* ------------------------------------------------------------------------
\* SparseSet (writer/sparseset.rs).  sparse is never initialised: a slot
\* that was never written reads as the arbitrary value junk.
\* ------------------------------------------------------------------------
SparseSet_new(junk) == [sparse |-> <<>>, dense |-> <<>>, junk |-> junk]

SparseSlot(s, x) == IF x \in DOMAIN s.sparse THEN s.sparse[x] ELSE s.junk

SparseStore(s, x, n) ==
    [t \in (DOMAIN s.sparse) \cup {x} |-> IF t = x THEN n ELSE s.sparse[t]]

\* an insert that trusts sparse[x] < dense.len() alone
SparseSet_insert_unchecked(s, x) ==
    IF SparseSlot(s, x) < Len(s.dense) THEN s
    ELSE [s EXCEPT !.sparse = SparseStore(s, x, Len(s.dense)),
                   !.dense = Append(s.dense, x)]

SparseSet_insert(s, x) ==
    LET v == SparseSlot(s, x)
        n == Len(s.dense)
    IN  IF v < n /\ s.dense[v + 1] = x THEN s
        ELSE [s EXCEPT !.sparse = SparseStore(s, x, n),
                       !.dense = Append(s.dense, x)]

SparseSet_clear(s) == [s EXCEPT !.dense = <<>>]

SparseSet_contains(s, x) ==
    LET v == SparseSlot(s, x)
    IN  v < Len(s.dense) /\ s.dense[v + 1] = x

\* take_dense: the set after the swap and the vector handed out
SparseSet_take_dense(s) == [set |-> [s EXCEPT !.dense = <<>>], out |-> s.dense]

\* ------------------------------------------------------------------------
\* PostEntry, sort_post, PostHeap
\* ------------------------------------------------------------------------
\* NPOST, the capacity of the in-memory posting buffer, scaled down from
\* (64 << 20) / 8 so that spills happen on small inputs
NPOST == 4

\* PostEntry(trigram << 32 | file_id) as the pair <<trigram, file_id>>;
\* the derived Ord on the u64 is the lexicographic order of the pair
PostEntry_new(trigram, file_id) == <<trigram, file_id>>

PostEntryLt(a, b) == a[1] < b[1] \/ (a[1] = b[1] /\ a[2] < b[2])

PostEntryLe(a, b) == a = b \/ PostEntryLt(a, b)

\* one counting-sort pass of sort_post: stable on the 12-bit digit number
\* pass (0 = low digit of the trigram, 1 = high digit)
SortDigit(p, pass) == (p[1] \div ((2^12)^pass)) % (2^12)

RECURSIVE SortBuckets(_, _, _)
SortBuckets(post, pass, digits) ==
    IF digits = {} THEN <<>>
    ELSE LET d == CHOOSE x \in digits : \A y \in digits : x <= y
             Here(p) == SortDigit(p, pass) = d
         IN  SelectSeq(post, Here) \o SortBuckets(post, pass, digits \ {d})

SortPass(post, pass) ==
    SortBuckets(post, pass, {SortDigit(post[i], pass) : i \in 1..Len(post)})

sort_post(post) == SortPass(SortPass(post, 0), 1)

\* PostChunk::new on a non-empty vector
PostChunk_new(v) == [e |-> Head(v), m |-> Tail(v), size |-> Len(v)]

\* PostChunk::next: the chunk after the call (the value returned is .e before)
PostChunk_next(c) ==
    [e |-> IF c.m # <<>> THEN Head(c.m) ELSE c.e,
     m |-> IF c.m # <<>> THEN Tail(c.m) ELSE <<>>,
     size |-> c.size - 1]

Swap(ch, i, j) == [ch EXCEPT ![i + 1] = ch[j + 1], ![j + 1] = ch[i + 1]]

\* PostHeap::sift_up / sift_down on the vector ch, indices from 0
RECURSIVE sift_up(_, _)
sift_up(ch, j) ==
    IF j <= 0 THEN ch
    ELSE LET i == (j - 1) \div 2 IN
         IF i = j \/ PostEntryLt(ch[i + 1].e, ch[j + 1].e) THEN ch
         ELSE sift_up(Swap(ch, i, j), i)

RECURSIVE sift_down(_, _)
sift_down(ch, i) ==
    LET len == Len(ch)
        j1  == 2 * i + 1
        j2  == j1 + 1
    IN  IF j1 >= len THEN ch
        ELSE LET j == IF j2 < len /\ PostEntryLe(ch[j2 + 1].e, ch[j1 + 1].e)
                      THEN j2 ELSE j1
             IN  IF PostEntryLt(ch[i + 1].e, ch[j + 1].e) THEN ch
                 ELSE sift_down(Swap(ch, i, j), j)

\* PostHeap::add_mem: PostChunk::new, add, push
PostHeap_add_mem(ch, v) ==
    IF v = <<>> THEN ch
    ELSE LET n   == Len(ch)
             ch1 == Append(ch, PostChunk_new(v))
         IN  IF Len(ch1) >= 2 THEN sift_up(ch1, n) ELSE ch1

\* IntoIter::next repeated until None: the entries in the order yielded
RECURSIVE PostHeap_drain(_, _)
PostHeap_drain(ch, place) ==
    IF place >= Len(ch) THEN <<>>
    ELSE LET e   == ch[place + 1].e
             ch1 == [ch EXCEPT ![place + 1] = PostChunk_next(ch[place + 1])]
         IN  IF ch1[place + 1].size = 0
             THEN <<e>> \o PostHeap_drain(ch1, place + 1)
             ELSE <<e>> \o PostHeap_drain(sift_down(ch1, place), place)

PostHeap_into_iter(ch) == PostHeap_drain(ch, 0)

\* ------------------------------------------------------------------------
\* Byte-level helpers of the writers (byteorder, WriteTrigram) and readers
\* ------------------------------------------------------------------------
\* write_u32::<BigEndian>(n) for a natural n below 2^31
write_u32(n) ==
    <<n \div (2^24), (n \div (2^16)) % 256, (n \div 256) % 256, n % 256>>

\* read_u32::<BigEndian> at byte offset off (from 0) of d
read_u32(d, off) ==
    d[off + 1] * (2^24) + d[off + 2] * (2^16) + d[off + 3] * 256 + d[off + 4]

\* WriteTrigram::write_trigram
write_trigram(t) == <<(t \div (2^16)) % 256, (t \div 256) % 256, t % 256>>

\* (d[i] << 16) | (d[i+1] << 8) | d[i+2] at byte offset off (from 0)
read_trigram(d, off) == d[off + 1] * (2^16) + d[off + 2] * 256 + d[off + 3]

\* write_u64::<BigEndian>(PostEntry::value()): the trigram in the upper
\* four bytes, the file id in the lower four
write_post_entry(p) == write_u32(p[1]) \o write_u32(p[2])

\* PostHeap::add_file: read_u64::<BigEndian> until the read fails
RECURSIVE read_post_entries(_)
read_post_entries(bytes) ==
    IF Len(bytes) < 8 THEN <<>>
    ELSE <<PostEntry_new(read_u32(bytes, 0), read_u32(bytes, 4))>>
         \o read_post_entries(Drop(bytes, 8))

\* "csearch index 1\n"
MAGIC == <<99, 115, 101, 97, 114, 99, 104, 32, 105, 110, 100, 101, 120, 32, 49, 10>>

\* "\ncsearch trailr\n"
TRAILER_MAGIC ==
    <<10, 99, 115, 101, 97, 114, 99, 104, 32, 116, 114, 97, 105, 108, 114, 10>>

\* ------------------------------------------------------------------------
\* IndexWriter (writer/write.rs).  Files are byte sequences; get_offset of
\* a file that is only appended to is its length.
\* ------------------------------------------------------------------------
MAX_FILE_LEN == 2^30

MAX_TEXT_TRIGRAMS == 30000

MAX_LINE_LEN == 2000

\* (size as f64 * MAX_INVALID_UTF8_RATION) as u64 with the ratio 0.1
max_utf8_invalid(size) == size \div 10

IndexWriter_new(junk) ==
    [max_trigram_count |-> MAX_TEXT_TRIGRAMS,
     max_file_len |-> MAX_FILE_LEN,
     max_line_len |-> MAX_LINE_LEN,
     paths |-> <<>>,
     name_data |-> <<>>,
     name_index |-> <<>>,
     trigram |-> SparseSet_new(junk),
     number_of_names_written |-> 0,
     bytes_written |-> 0,
     post |-> <<>>,
     post_files |-> <<>>,
     post_index |-> <<>>,
     index |-> <<>>]

add_paths(w, ps) == [w EXCEPT !.paths = w.paths \o ps]

\* Path::to_str succeeds on valid UTF-8 only.  The names that occur are
\* ASCII or hold the byte 0xFF, which no UTF-8 string contains.
to_str_ok(name) == \A i \in 1..Len(name) : name[i] < 128

\* IndexWriter::flush_post
flush_post(w) ==
    LET sorted == sort_post(w.post)
        f == Flatten([i \in 1..Len(sorted) |-> write_post_entry(sorted[i])])
    IN  [w EXCEPT !.post = <<>>, !.post_files = Append(w.post_files, f)]

\* IndexWriter::add_name: the writer after the call, ok and the id returned
add_name(w, filename) ==
    LET w1 == [w EXCEPT !.name_index = w.name_index \o write_u32(Len(w.name_data))]
    IN  IF ~to_str_ok(filename)
        THEN [w |-> w1, ok |-> FALSE, id |-> 0]
        ELSE [w |-> [w1 EXCEPT !.name_data = w.name_data \o filename \o <<0>>,
                               !.number_of_names_written =
                                   w.number_of_names_written + 1],
              ok |-> TRUE, id |-> w.number_of_names_written]

\* IndexWriter::push_trigrams_to_post
RECURSIVE push_trigrams_to_post(_, _, _)
push_trigrams_to_post(w, file_id, trigrams) ==
    IF trigrams = <<>> THEN w
    ELSE LET w1 == IF Len(w.post) >= NPOST THEN flush_post(w) ELSE w
             w2 == [w1 EXCEPT !.post =
                        Append(w1.post, PostEntry_new(Head(trigrams), file_id))]
         IN  push_trigrams_to_post(w2, file_id, Tail(trigrams))

\* the loop `while let Some(t) = trigrams.next() { self.trigram.insert(t) }`
RECURSIVE insert_trigrams(_, _)
insert_trigrams(rd, set) ==
    LET step == TrigramReader_next(rd) IN
    IF step.out = <<>> THEN [rd |-> step.rd, set |-> set]
    ELSE insert_trigrams(step.rd, SparseSet_insert(set, step.out[1]))

\* IndexWriter::add: the writer after the call and the Ok / error kind
add(w, filename, content) ==
    LET size == Len(content) IN
    IF size > w.max_file_len THEN [w |-> w, res |-> "FileTooLong"]
    ELSE LET rd0  == TrigramReader_new(content, max_utf8_invalid(size),
                                       w.max_line_len)
             read == insert_trigrams(rd0, SparseSet_clear(w.trigram))
             w1   == [w EXCEPT !.trigram = read.set]
         IN  IF read.rd.error # "none" THEN [w |-> w1, res |-> read.rd.error]
             ELSE IF Len(w1.trigram.dense) > w1.max_trigram_count
             THEN [w |-> w1, res |-> "TooManyTrigrams"]
             ELSE LET w2 == [w1 EXCEPT !.bytes_written = w1.bytes_written + size]
                      nm == add_name(w2, filename)
                  IN  IF ~nm.ok THEN [w |-> nm.w, res |-> "FileNameError"]
                      ELSE LET v  == nm.w.trigram.dense
                               w3 == [nm.w EXCEPT !.trigram.dense = <<>>]
                           IN  [w |-> push_trigrams_to_post(w3, nm.id, v),
                                res |-> "Ok"]

\* TakeWhilePeek: the leading entries of h that carry the trigram of its head
RECURSIVE take_while_peek(_, _)
take_while_peek(h, t) ==
    IF h = <<>> \/ Head(h)[1] # t THEN <<>>
    ELSE <<Head(h)>> \o take_while_peek(Tail(h), t)

\* the `while let Some(plist) = TakeWhilePeek::new(&mut h)` loop of
\* merge_post: out is the index file, pix the posting-list index, offset0
\* the start of the posting-list section
RECURSIVE merge_post_loop(_, _, _, _)
merge_post_loop(h, out, pix, offset0) ==
    IF h = <<>> THEN [index |-> out, post_index |-> pix]
    ELSE LET t      == Head(h)[1]
             group  == take_while_peek(h, t)
             offset == Len(out) - offset0
             body   == merge_post_deltas([i \in 1..Len(group) |-> AsU32(group[i][2])])
         IN  merge_post_loop(Drop(h, Len(group)),
                             out \o write_trigram(t) \o body.bytes,
                             pix \o write_trigram(t) \o write_u32(body.count)
                                 \o write_u32(offset),
                             offset0)

\* the chunks of the heap of merge_post: every run file, then the sorted
\* in-memory buffer
RECURSIVE heap_of_files(_, _)
heap_of_files(files, ch) ==
    IF files = <<>> THEN ch
    ELSE heap_of_files(Tail(files), PostHeap_add_mem(ch, read_post_entries(Head(files))))

\* the 0xffffff END trigram
END_TRIGRAM == 2^24 - 1

\* a merge_post that writes no end entry
merge_post_end_bare(r) == r

\* the closing entries of merge_post
merge_post_end(r) ==
    [index |-> r.index \o write_trigram(END_TRIGRAM) \o index_write_uvarint(AsU32(0)),
     post_index |-> r.post_index \o write_trigram(END_TRIGRAM) \o write_u32(0)
                        \o write_u32(0)]

\* IndexWriter::merge_post
merge_post(w) ==
    LET heap == PostHeap_add_mem(heap_of_files(w.post_files, <<>>), sort_post(w.post))
        h    == PostHeap_into_iter(heap)
        r    == merge_post_end(merge_post_loop(h, w.index, w.post_index, Len(w.index)))
    IN  [w EXCEPT !.post = <<>>, !.index = r.index, !.post_index = r.post_index]

\* the paths of flush, each followed by NUL
RECURSIVE write_paths(_)
write_paths(ps) ==
    IF ps = <<>> THEN <<>> ELSE Head(ps) \o <<0>> \o write_paths(Tail(ps))

\* IndexWriter::flush: the writer after the call; .index is the index file
flush(w) ==
    LET w0   == add_name(w, <<>>).w
        w1   == [w0 EXCEPT !.index = w0.index \o MAGIC]
        off0 == Len(w1.index)
        w2   == [w1 EXCEPT !.index = w1.index \o write_paths(w1.paths) \o <<0>>]
        off1 == Len(w2.index)
        w3   == [w2 EXCEPT !.index = w2.index \o w2.name_data]
        off2 == Len(w3.index)
        w4   == merge_post(w3)
        off3 == Len(w4.index)
        w5   == [w4 EXCEPT !.index = w4.index \o w4.name_index]
        off4 == Len(w5.index)
        w6   == [w5 EXCEPT !.index = w5.index \o w5.post_index]
    IN  [w6 EXCEPT !.index = w6.index \o write_u32(off0) \o write_u32(off1)
                       \o write_u32(off2) \o write_u32(off3) \o write_u32(off4)
                       \o TRAILER_MAGIC]

\* ------------------------------------------------------------------------
\* IndexReader and PostReader (reader/read.rs), search (index/search.rs)
\* ------------------------------------------------------------------------
POST_ENTRY_SIZE == 3 + 4 + 4

\* IndexReader::open on the bytes of an index file
IndexReader_open(data) ==
    LET n          == Len(data) - Len(TRAILER_MAGIC) - 5 * 4
        name_index == read_u32(data, n + 12)
        post_index == read_u32(data, n + 16)
        d          == (post_index - name_index) \div 4
    IN  [data |-> data,
         path_data |-> read_u32(data, n),
         name_data |-> read_u32(data, n + 4),
         post_data |-> read_u32(data, n + 8),
         name_index |-> name_index,
         post_index |-> post_index,
         num_name |-> IF post_index > name_index
                      THEN (IF d = 0 THEN 0 ELSE d - 1) ELSE 0,
         num_post |-> IF n > post_index
                      THEN (n - post_index) \div POST_ENTRY_SIZE ELSE 0]

\* IndexReader::extract_string_at: the bytes from offset up to the next NUL
RECURSIVE extract_string_at(_, _)
extract_string_at(data, offset) ==
    IF data[offset + 1] = 0 THEN <<>>
    ELSE <<data[offset + 1]>> \o extract_string_at(data, offset + 1)

\* IndexReader::name
IndexReader_name(r, file_id) ==
    extract_string_at(r.data, r.name_data + read_u32(r.data, r.name_index + 4 * file_id))

\* IndexReader::indexed_paths
RECURSIVE indexed_paths_from(_, _)
indexed_paths_from(data, offset) ==
    LET s == extract_string_at(data, offset) IN
    IF Len(s) = 0 THEN <<>>
    ELSE <<s>> \o indexed_paths_from(data, offset + Len(s) + 1)

indexed_paths(r) == indexed_paths_from(r.data, r.path_data)

\* IndexReader::list_at; offset counts bytes from the start of the
\* posting-list index
list_at(r, offset) ==
    [trigram |-> read_trigram(r.data, r.post_index + offset),
     count |-> read_u32(r.data, r.post_index + offset + 3),
     offset |-> read_u32(r.data, r.post_index + offset + 3 + 4)]

\* search::search(n, f): binary search for the least i with f(i), f being
\* "the trigram of index entry i is >= trigram"
RECURSIVE search(_, _, _, _)
search(i, j, r, trigram) ==
    IF i >= j THEN i
    ELSE LET h == i + (j - i) \div 2 IN
         IF ~(read_trigram(r.data, r.post_index + h * POST_ENTRY_SIZE) >= trigram)
         THEN search(h + 1, j, r, trigram)
         ELSE search(i, h, r, trigram)

\* IndexReader::find_list
find_list(r, trigram) ==
    LET result == search(0, r.num_post, r, trigram) IN
    IF result >= r.num_post THEN [count |-> 0, offset |-> 0]
    ELSE LET e == list_at(r, result * POST_ENTRY_SIZE) IN
         IF e.trigram # trigram THEN [count |-> 0, offset |-> 0]
         ELSE [count |-> e.count, offset |-> e.offset]

\* a u32 as a natural; used where the value stays below 2^31
U32AsNat(x) == x[1] * Limb + x[2]

\* PostReader::list with restrict = None: panic tells whether
\* PostReader::next hit "corrupt index"
PostReader_list(r, trigram) ==
    LET fl == find_list(r, trigram) IN
    IF fl.count = 0 THEN [panic |-> FALSE, ids |-> {}]
    ELSE LET run == post_reader_list(Drop(r.data, r.post_data + fl.offset + 3),
                                     fl.count)
         IN  [panic |-> run.panic,
              ids |-> {U32AsNat(run.ids[i]) : i \in 1..Len(run.ids)}]

\* PostReader::or with restrict = None: the set returned
PostReader_or(r, list, trigram) ==
    IF find_list(r, trigram).count = 0 THEN {}
    ELSE list \cup PostReader_list(r, trigram).ids

\* ------------------------------------------------------------------------
\* merge (merge/merge.rs): id ranges, path list, name list
\* ------------------------------------------------------------------------
\* String comparison: the lexicographic order of the bytes
RECURSIVE StrLt(_, _)
StrLt(a, b) ==
    IF b = <<>> THEN FALSE
    ELSE IF a = <<>> THEN TRUE
    ELSE IF Head(a) # Head(b) THEN Head(a) < Head(b)
    ELSE StrLt(Tail(a), Tail(b))

StrLe(a, b) == a = b \/ StrLt(a, b)

starts_with(p, prefix) ==
    Len(prefix) <= Len(p) /\ SubSeq(p, 1, Len(prefix)) = prefix

\* the limit of a path: its last byte incremented
path_limit(path) == [path EXCEPT ![Len(path)] = @ + 1]

\* a skip that advances over one name at most
skip_names_once(ix, i, bound) ==
    IF i < ix.num_name /\ StrLt(IndexReader_name(ix, i), bound) THEN i + 1
    ELSE i

\* `while i < ix.num_name && ix.name(i) < bound { i += 1 }`
RECURSIVE skip_names(_, _, _)
skip_names(ix, i, bound) ==
    IF i < ix.num_name /\ StrLt(IndexReader_name(ix, i), bound)
    THEN skip_names(ix, i + 1, bound)
    ELSE i

\* a path of ix2 that shadows nothing
shadow_end_none(ix1, lo, limit) == lo

\* merge, lines 77-79: the end of the range of ix1 that the path shadows
shadow_end(ix1, lo, limit) == skip_names(ix1, lo, limit)

\* the `for path in &paths2` loop of merge; st holds i1, i2, new, map1,
\* map2 and whether "merge: inconsistent index" was hit
RECURSIVE id_ranges_loop(_, _, _, _)
id_ranges_loop(ix1, ix2, paths2, st) ==
    IF paths2 = <<>> \/ st.panic THEN st
    ELSE LET path  == Head(paths2)
             old   == st.i1
             lo    == skip_names(ix1, st.i1, path)
             limit == path_limit(path)
             i1    == shadow_end(ix1, lo, limit)
             map1  == IF old < lo
                      THEN Append(st.map1, [low |-> old, high |-> lo, new |-> st.new])
                      ELSE st.map1
             new1  == IF old < lo THEN st.new + (lo - old) ELSE st.new
         IN  IF st.i2 < ix2.num_name /\ StrLt(IndexReader_name(ix2, st.i2), path)
             THEN [st EXCEPT !.i1 = i1, !.map1 = map1, !.new = new1, !.panic = TRUE]
             ELSE LET hi   == skip_names(ix2, st.i2, limit)
                      map2 == IF st.i2 < hi
                              THEN Append(st.map2, [low |-> st.i2, high |-> hi,
                                                    new |-> new1])
                              ELSE st.map2
                      new2 == IF st.i2 < hi THEN new1 + (hi - st.i2) ELSE new1
                  IN  id_ranges_loop(ix1, ix2, Tail(paths2),
                          [i1 |-> i1, i2 |-> hi, new |-> new2, map1 |-> map1,
                           map2 |-> map2, panic |-> FALSE])

\* merge, lines 59-111: the id maps of both inputs and num_name
id_ranges(ix1, ix2, paths2) ==
    LET st == id_ranges_loop(ix1, ix2, paths2,
                  [i1 |-> 0, i2 |-> 0, new |-> 0, map1 |-> <<>>, map2 |-> <<>>,
                   panic |-> FALSE])
        map1 == IF st.i1 < ix1.num_name
                THEN Append(st.map1, [low |-> st.i1, high |-> ix1.num_name,
                                      new |-> st.new])
                ELSE st.map1
        new  == IF st.i1 < ix1.num_name THEN st.new + (ix1.num_name - st.i1)
                ELSE st.new
    IN  [map1 |-> map1, map2 |-> st.map2, num_name |-> new,
         panic |-> st.panic \/ st.i2 < ix2.num_name]

\* merge, lines 116-138: the path list written to ix3
RECURSIVE merge_paths(_, _, _, _, _)
merge_paths(paths1, paths2, mi1, mi2, last) ==
    IF ~(mi1 < Len(paths1) /\ mi2 < Len(paths2)) THEN <<>>
    ELSE LET first == mi2 >= Len(paths2)
                      \/ (mi1 < Len(paths1) /\ StrLe(paths1[mi1 + 1], paths2[mi2 + 1]))
             p     == IF first THEN paths1[mi1 + 1] ELSE paths2[mi2 + 1]
             n1    == IF first THEN mi1 + 1 ELSE mi1
             n2    == IF first THEN mi2 ELSE mi2 + 1
         IN  IF starts_with(p, last)
             THEN merge_paths(paths1, paths2, n1, n2, last)
             ELSE p \o <<0>> \o merge_paths(paths1, paths2, n1, n2, p)

\* `for i in map[mi].low .. map[mi].high`: the names of one id range.
\* out is ix3 so far, nix the name index so far
RECURSIVE emit_range(_, _, _, _, _, _)
emit_range(ix, i, high, out, nix, name_data) ==
    IF i >= high THEN [out |-> out, nix |-> nix]
    ELSE emit_range(ix, i + 1, high,
                    out \o IndexReader_name(ix, i) \o <<0>>,
                    nix \o write_u32(Len(out) - name_data),
                    name_data)

\* merge, lines 148-173: the `while new < num_name` loop
RECURSIVE emit_names(_, _, _, _, _, _, _)
emit_names(ix1, ix2, maps, new, mi1, mi2, acc) ==
    IF new >= maps.num_name \/ acc.panic THEN acc
    ELSE IF mi1 < Len(maps.map1) /\ maps.map1[mi1 + 1].new = new
    THEN LET m == maps.map1[mi1 + 1]
             r == emit_range(ix1, m.low, m.high, acc.out, acc.nix, acc.name_data)
         IN  emit_names(ix1, ix2, maps, new + (m.high - m.low), mi1 + 1, mi2,
                        [acc EXCEPT !.out = r.out, !.nix = r.nix])
    ELSE IF mi2 < Len(maps.map2) /\ maps.map2[mi2 + 1].new = new
    THEN LET m == maps.map2[mi2 + 1]
             r == emit_range(ix2, m.low, m.high, acc.out, acc.nix, acc.name_data)
         IN  emit_names(ix1, ix2, maps, new + (m.high - m.low), mi1, mi2 + 1,
                        [acc EXCEPT !.out = r.out, !.nix = r.nix])
    ELSE [acc EXCEPT !.panic = TRUE]

\* ------------------------------------------------------------------------
\* PostMapReader (merge/postmapreader.rs).  trigram, old_id and file_id are
\* u32 limbs (they take the value u32::MAX); d is kept as the offset of the
\* slice within the index file.
\* ------------------------------------------------------------------------
PostMapReader_load(pm) ==
    IF pm.tri_num >= pm.index.num_post
    THEN [pm EXCEPT !.trigram = U32_MAX, !.count = 0, !.file_id = U32_MAX]
    ELSE LET e  == list_at(pm.index, pm.tri_num * POST_ENTRY_SIZE)
             p1 == [pm EXCEPT !.trigram = AsU32(e.trigram), !.count = e.count,
                              !.offset = e.offset]
         IN  IF e.count = 0 THEN [p1 EXCEPT !.file_id = U32_MAX]
             ELSE [p1 EXCEPT !.d = pm.index.post_data + e.offset + 3,
                             !.old_id = U32_MAX, !.i = 0]

PostMapReader_new(index, id_map) ==
    PostMapReader_load(
        [index |-> index, id_map |-> id_map, tri_num |-> 0, trigram |-> U32_MAX,
         count |-> 0, offset |-> 0, d |-> 0, old_id |-> U32_MAX,
         file_id |-> AsU32(0), i |-> 0])

next_trigram(pm) == PostMapReader_load([pm EXCEPT !.tri_num = pm.tri_num + 1])

\* `while self.i < self.id_map.len() && self.id_map[self.i].high <= self.old_id`
RECURSIVE skip_ranges(_, _, _)
skip_ranges(id_map, i, old_id) ==
    IF i < Len(id_map) /\ ~U32Lt(old_id, AsU32(id_map[i + 1].high))
    THEN skip_ranges(id_map, i + 1, old_id)
    ELSE i

\* an id map that leaves every id where it was
remap_identity(range, old_id) == old_id

\* PostMapReader::next_id, line 92: the new id of old_id within its range
remap(range, old_id) ==
    wrapping_sub(wrapping_add(AsU32(range.new), old_id), AsU32(range.low))

\* PostMapReader::next_id: the reader after the call and the value returned
RECURSIVE next_id(_)
\* lines 88-96: the id map is exhausted, the id falls before its range, or
\* the id is remapped
next_id_map(p1) ==
    IF p1.i >= Len(p1.id_map)
    THEN [pm |-> [p1 EXCEPT !.count = 0, !.file_id = U32_MAX], more |-> FALSE]
    ELSE IF U32Lt(p1.old_id, AsU32(p1.id_map[p1.i + 1].low)) THEN next_id(p1)
    ELSE [pm |-> [p1 EXCEPT !.file_id = remap(p1.id_map[p1.i + 1], p1.old_id)],
          more |-> TRUE]

\* lines 79-87: the delta read is applied and the id map is advanced
next_id_delta(pm, n, old_id) ==
    next_id_map([pm EXCEPT !.count = pm.count - 1, !.d = pm.d + n,
                           !.old_id = old_id,
                           !.i = skip_ranges(pm.id_map, pm.i, old_id)])

next_id_read(pm, r) ==
    next_id_delta(pm, r.n, wrapping_add(pm.old_id, U64AsU32(r.value)))

next_id(pm) ==
    IF pm.count <= 0 THEN [pm |-> [pm EXCEPT !.file_id = U32_MAX], more |-> FALSE]
    ELSE next_id_read(pm, read_uvarint(Drop(pm.index.data, pm.d)))

\* ------------------------------------------------------------------------
\* PostDataWriter (merge/postdatawriter.rs)
\* ------------------------------------------------------------------------
PostDataWriter_new(out) ==
    [out |-> out, post_index_file |-> <<>>, base |-> Len(out), count |-> 0,
     offset |-> 0, last |-> AsU32(0), t |-> AsU32(0)]

PostDataWriter_trigram(w, t) ==
    [w EXCEPT !.offset = Len(w.out), !.count = 0, !.t = t, !.last = U32_MAX]

PostDataWriter_file_id(w, id) ==
    LET out1 == IF w.count = 0 THEN w.out \o write_trigram(U32AsNat(w.t))
                ELSE w.out
    IN  [w EXCEPT !.out = out1 \o write_uvarint(wrapping_sub(id, w.last)),
                  !.last = id, !.count = w.count + 1]

PostDataWriter_end_trigram(w) ==
    IF w.count = 0 THEN w
    ELSE [w EXCEPT !.out = w.out \o write_uvarint(AsU32(0)),
                   !.post_index_file = w.post_index_file
                       \o write_trigram(U32AsNat(w.t)) \o write_u32(w.count)
                       \o write_u32(w.offset - w.base)]

\* ------------------------------------------------------------------------
\* merge_list_of_posting_lists and merge (merge/merge.rs)
\* ------------------------------------------------------------------------
\* `while r.next_id() { w.file_id(r.file_id) }`
RECURSIVE copy_ids(_, _)
copy_ids_step(n, w) ==
    IF ~n.more THEN [r |-> n.pm, w |-> w]
    ELSE copy_ids(n.pm, PostDataWriter_file_id(w, n.pm.file_id))

copy_ids(r, w) == copy_ids_step(next_id(r), w)

\* `while r1.file_id < u32::MAX || r2.file_id < u32::MAX`
RECURSIVE merge_ids(_, _, _)
merge_ids(r1, r2, w) ==
    IF ~(U32Lt(r1.file_id, U32_MAX) \/ U32Lt(r2.file_id, U32_MAX))
    THEN [r1 |-> r1, r2 |-> r2, w |-> w, panic |-> FALSE]
    ELSE IF U32Lt(r1.file_id, r2.file_id)
    THEN merge_ids(next_id(r1).pm, r2, PostDataWriter_file_id(w, r1.file_id))
    ELSE IF U32Lt(r2.file_id, r1.file_id)
    THEN merge_ids(r1, next_id(r2).pm, PostDataWriter_file_id(w, r2.file_id))
    ELSE [r1 |-> r1, r2 |-> r2, w |-> w, panic |-> TRUE]

RECURSIVE merge_list_of_posting_lists(_, _, _)
\* the trigram is in r1 only: its list was copied, both advance
merge_lists_copied1(c, r2) ==
    merge_list_of_posting_lists(next_trigram(c.r), r2,
                                PostDataWriter_end_trigram(c.w))

\* the trigram is in r2 only
merge_lists_copied2(r1, c) ==
    merge_list_of_posting_lists(r1, next_trigram(c.r),
                                PostDataWriter_end_trigram(c.w))

\* the trigram is in both: the two lists were merged
merge_lists_merged(m) ==
    IF m.panic THEN [w |-> m.w, panic |-> TRUE]
    ELSE merge_list_of_posting_lists(next_trigram(m.r1), next_trigram(m.r2),
                                     PostDataWriter_end_trigram(m.w))

merge_list_of_posting_lists(r1, r2, w) ==
    IF U32Lt(r1.trigram, r2.trigram)
    THEN merge_lists_copied1(copy_ids(r1, PostDataWriter_trigram(w, r1.trigram)), r2)
    ELSE IF U32Lt(r2.trigram, r1.trigram)
    THEN merge_lists_copied2(r1, copy_ids(r2, PostDataWriter_trigram(w, r2.trigram)))
    ELSE IF r1.trigram = U32_MAX THEN [w |-> w, panic |-> FALSE]
    ELSE merge_lists_merged(merge_ids(next_id(r1).pm, next_id(r2).pm,
                                      PostDataWriter_trigram(w, r1.trigram)))

\* merge, lines 179-208: the name index, the posting-list index and the
\* trailer follow the posting lists
merge_trailer(names, lists, name_data) ==
    IF lists.panic THEN [panic |-> TRUE, dest |-> lists.w.out]
    ELSE [panic |-> FALSE,
          dest |-> lists.w.out \o names.nix \o write_u32(Len(names.out))
                   \o lists.w.post_index_file \o write_u32(Len(MAGIC))
                   \o write_u32(name_data) \o write_u32(Len(names.out))
                   \o write_u32(Len(lists.w.out))
                   \o write_u32(Len(lists.w.out) + Len(names.nix) + 4)
                   \o TRAILER_MAGIC]

\* merge, lines 179-187: the posting lists are merged after the names
merge_lists(ix1, ix2, maps, names, name_data) ==
    IF names.panic THEN [panic |-> TRUE, dest |-> names.out]
    ELSE merge_trailer(names,
                       merge_list_of_posting_lists(
                           PostMapReader_new(ix1, maps.map1),
                           PostMapReader_new(ix2, maps.map2),
                           PostDataWriter_new(names.out)),
                       name_data)

\* merge, lines 140-177: the names are written after the path list ix3a
merge_names(ix1, ix2, maps, ix3a) ==
    IF maps.panic THEN [panic |-> TRUE, dest |-> <<>>]
    ELSE merge_lists(ix1, ix2, maps,
                     emit_names(ix1, ix2, maps, 0, 0, 0,
                                [out |-> ix3a, nix |-> <<>>, name_data |-> Len(ix3a),
                                 panic |-> FALSE]),
                     Len(ix3a))

\* merge, lines 56-138: the id ranges and the path list
merge_indexes(ix1, ix2, paths1, paths2) ==
    merge_names(ix1, ix2, id_ranges(ix1, ix2, paths2),
                MAGIC \o merge_paths(paths1, paths2, 0, 0, <<0>>) \o <<0>>)

merge_opened(ix1, ix2) ==
    merge_indexes(ix1, ix2, indexed_paths(ix1), indexed_paths(ix2))

\* merge(dest, src1, src2) on the bytes of the two source index files:
\* dest is the file written, panic tells whether "merge: inconsistent
\* index" was hit
merge(src1, src2) == merge_opened(IndexReader_open(src1), IndexReader_open(src2))

\* ------------------------------------------------------------------------
\* Query (libcsearch/src/regexp.rs).  A trigram is its 3 bytes, a StringSet
\* a set of byte strings; an Option<StringSet> is <<>> or <<set>>.
\* ------------------------------------------------------------------------
\* the iteration order of a BTreeSet<Vec<u8>>
RECURSIVE btree_iter(_)
btree_iter_from(S, m) == <<m>> \o btree_iter(S \ {m})

btree_iter(S) ==
    IF S = {} THEN <<>>
    ELSE btree_iter_from(S, CHOOSE x \in S : \A y \in S : StrLe(x, y))

Query_new(operation) == [operation |-> operation, trigram |-> {}, sub |-> <<>>]

Query_all == Query_new("All")

Query_none == Query_new("None")

is_atom(q) == Cardinality(q.trigram) = 1 /\ q.sub = <<>>

\* Query::simplify
Query_simplify(q) ==
    IF Cardinality(q.trigram) = 0 /\ Len(q.sub) = 1 THEN q.sub[1] ELSE q

RECURSIVE trigrams_imply(_, _)
trigrams_imply(trigram, rhs) ==
    IF rhs.operation = "Or"
    THEN \/ \E i \in 1..Len(rhs.sub) : trigrams_imply(trigram, rhs.sub[i])
         \/ \E s \in trigram : s \in rhs.trigram
    ELSE IF rhs.operation = "And"
    THEN /\ ~(\E i \in 1..Len(rhs.sub) : ~trigrams_imply(trigram, rhs.sub[i]))
         /\ rhs.trigram \subseteq trigram
    ELSE FALSE

\* an implies whose match arms come in the other order
implies_false_first(q, rhs) ==
    IF q.operation = "All" \/ rhs.operation = "None" THEN FALSE
    ELSE IF q.operation = "None" \/ rhs.operation = "All" THEN TRUE
    ELSE IF q.operation = "And"
            \/ (q.operation = "Or" /\ Cardinality(q.trigram) = 1 /\ Len(q.sub) = 0)
    THEN trigrams_imply(q.trigram, rhs)
    ELSE q.operation = "Or" /\ rhs.operation = "Or" /\ Cardinality(q.trigram) > 0
         /\ Len(q.sub) = 0 /\ q.trigram \subseteq rhs.trigram

\* Query::implies
implies(q, rhs) ==
    IF q.operation = "None" \/ rhs.operation = "All" THEN TRUE
    ELSE IF q.operation = "All" \/ rhs.operation = "None" THEN FALSE
    ELSE IF q.operation = "And"
            \/ (q.operation = "Or" /\ Cardinality(q.trigram) = 1 /\ Len(q.sub) = 0)
    THEN trigrams_imply(q.trigram, rhs)
    ELSE q.operation = "Or" /\ rhs.operation = "Or" /\ Cardinality(q.trigram) > 0
         /\ Len(q.sub) = 0 /\ q.trigram \subseteq rhs.trigram

\* a factoring that keeps the operation
new_operation_same(operation) == operation

\* the other one of And and Or
new_operation(operation) == IF operation = "And" THEN "Or" ELSE "And"

RECURSIVE and_or(_, _, _)
\* and_or, lines 706-745: an AND of ORs or an OR of ANDs, the common
\* trigrams factored out
and_or_common(q, r, operation, common) ==
    IF common # {}
    THEN and_or([operation |-> new_operation(operation), trigram |-> common,
                 sub |-> <<>>],
                and_or([q EXCEPT !.trigram = q.trigram \ common],
                       [r EXCEPT !.trigram = r.trigram \ common], operation),
                new_operation(operation))
    ELSE [operation |-> operation, trigram |-> {}, sub |-> <<q, r>>]

\* and_or, lines 663-705, on the simplified q and r
and_or_simplified(q, r, operation) ==
    IF implies(q, r) THEN (IF operation = "And" THEN q ELSE r)
    ELSE IF implies(r, q) THEN (IF operation = "And" THEN r ELSE q)
    ELSE IF q.operation = operation /\ (r.operation = operation \/ is_atom(r))
    THEN [q EXCEPT !.trigram = q.trigram \cup r.trigram, !.sub = q.sub \o r.sub]
    ELSE IF r.operation = operation /\ is_atom(q)
    THEN [r EXCEPT !.trigram = r.trigram \cup q.trigram]
    ELSE IF is_atom(q) /\ is_atom(r)
    THEN [q EXCEPT !.operation = operation, !.trigram = q.trigram \cup r.trigram]
    ELSE IF q.operation = operation THEN [q EXCEPT !.sub = Append(q.sub, r)]
    ELSE IF r.operation = operation THEN [r EXCEPT !.sub = Append(r.sub, q)]
    ELSE and_or_common(q, r, operation, q.trigram \cap r.trigram)

and_or(q, r, operation) ==
    and_or_simplified(Query_simplify(q), Query_simplify(r), operation)

Query_and(q, rhs) == and_or(q, rhs, "And")

Query_or(q, rhs) == and_or(q, rhs, "Or")

\* the length of the shortest string of xs, 0 for the empty set
min_string_len(xs) ==
    IF xs = {} THEN 0
    ELSE Len(CHOOSE x \in xs : \A y \in xs : Len(x) <= Len(y))

cross_product(s, t) == {a \o b : a \in s, b \in t}

\* the 3-byte windows of t_string
trigrams_of(t_string) ==
    {SubSeq(t_string, i, i + 2) : i \in 1..(Len(t_string) - 2)}

\* and_trigrams: the fold that ORs the AND of each string's trigrams
RECURSIVE or_of_strings(_, _)
or_of_strings(strs, or) ==
    IF strs = <<>> THEN or
    ELSE or_of_strings(Tail(strs),
             Query_or(or, [operation |-> "And", trigram |-> trigrams_of(Head(strs)),
                           sub |-> <<>>]))

and_trigrams(q, t) ==
    IF min_string_len(t) < 3 THEN q
    ELSE Query_and(q, or_of_strings(btree_iter(t), Query_none))

\* ------------------------------------------------------------------------
\* RegexInfo (libcsearch/src/regexp.rs)
\* ------------------------------------------------------------------------
RegexInfo_default ==
    [can_empty |-> FALSE, exact_set |-> <<>>, prefix |-> {}, suffix |-> {},
     query |-> Query_all]

no_match == [RegexInfo_default EXCEPT !.query = Query_none]

empty_string == [RegexInfo_default EXCEPT !.can_empty = TRUE, !.exact_set = <<{<<>>}>>]

any_char == [RegexInfo_default EXCEPT !.prefix = {<<>>}, !.suffix = {<<>>}]

any_match ==
    [RegexInfo_default EXCEPT !.can_empty = TRUE, !.prefix = {<<>>}, !.suffix = {<<>>}]

add_exact(x) ==
    IF x.exact_set = <<>> THEN x
    ELSE [x EXCEPT !.query = and_trigrams(x.query, x.exact_set[1])]

\* simplify_set, lines 550-565: the strings cut to n - 1 bytes, for n = 3
\* and on while the set holds more than 20
cut(s, n, is_suffix) ==
    IF Len(s) >= n
    THEN (IF is_suffix THEN SubSeq(s, Len(s) - n + 2, Len(s)) ELSE SubSeq(s, 1, n - 1))
    ELSE s

RECURSIVE cut_loop(_, _, _)
cut_loop(set, n, is_suffix) ==
    IF n = 3 \/ Cardinality(set) > 20
    THEN cut_loop({cut(s, n, is_suffix) : s \in set}, n - 1, is_suffix)
    ELSE set

ends_with(a, b) == Len(b) <= Len(a) /\ SubSeq(a, Len(a) - Len(b) + 1, Len(a)) = b

\* simplify_set, lines 571-577: the closure f
redundant(a, b, is_suffix) ==
    IF is_suffix THEN starts_with(a, b) ELSE ends_with(a, b)

\* simplify_set, lines 578-585: a string is kept unless f relates it to the
\* last string kept
RECURSIVE keep_loop(_, _, _, _)
keep_loop(strs, u, last, is_suffix) ==
    IF strs = <<>> THEN u
    ELSE IF u = {} \/ ~redundant(Head(strs), last, is_suffix)
    THEN keep_loop(Tail(strs), u \cup {Head(strs)}, Head(strs), is_suffix)
    ELSE keep_loop(Tail(strs), u, last, is_suffix)

\* simplify_set: the query returned and the set left in prefix_or_suffix
simplify_set(q, prefix_or_suffix, is_suffix) ==
    [q |-> and_trigrams(q, prefix_or_suffix),
     set |-> keep_loop(btree_iter(cut_loop(prefix_or_suffix, 3, is_suffix)),
                       {}, <<>>, is_suffix)]

\* simplify, lines 505-511: whether the exact set is given up
do_simplify(info, force) ==
    /\ info.exact_set # <<>>
    /\ \/ Cardinality(info.exact_set[1]) > 7
       \/ (min_string_len(info.exact_set[1]) >= 3 /\ force)
       \/ min_string_len(info.exact_set[1]) >= 4

\* simplify, lines 518-539: the exact strings become prefixes and suffixes
exact_to_affixes(info) ==
    [info EXCEPT
       !.prefix = info.prefix \cup {IF Len(s) < 3 THEN s ELSE SubSeq(s, 1, 2) :
                                       s \in info.exact_set[1]},
       !.suffix = info.suffix \cup {IF Len(s) < 3 THEN s
                                    ELSE SubSeq(s, Len(s) - 1, Len(s)) :
                                       s \in info.exact_set[1]},
       !.exact_set = <<>>]

with_prefix(info, r) == [info EXCEPT !.query = r.q, !.prefix = r.set]

with_suffix(info, r) == [info EXCEPT !.query = r.q, !.suffix = r.set]

simplify_suffix(info) ==
    with_suffix(info, simplify_set(info.query, info.suffix, TRUE))

\* simplify, lines 541-544
simplify_sets(info) ==
    IF info.exact_set # <<>> THEN info
    ELSE simplify_suffix(with_prefix(info,
                             simplify_set(info.query, info.prefix, FALSE)))

simplify(info, force) ==
    simplify_sets(IF do_simplify(info, force)
                  THEN exact_to_affixes(add_exact(info))
                  ELSE info)

\* concat, lines 422-441: exact set, prefix and suffix of xy
concat_sets(x, y) ==
    IF x.exact_set # <<>> /\ y.exact_set # <<>>
    THEN [RegexInfo_default EXCEPT
            !.exact_set = <<cross_product(x.exact_set[1], y.exact_set[1])>>]
    ELSE [RegexInfo_default EXCEPT
            !.prefix = IF x.exact_set # <<>>
                       THEN cross_product(x.exact_set[1], y.prefix)
                       ELSE IF x.can_empty THEN x.prefix \cup y.prefix
                       ELSE x.prefix,
            !.suffix = IF y.exact_set # <<>>
                       THEN cross_product(x.suffix, y.exact_set[1])
                       ELSE IF y.can_empty THEN y.suffix \cup x.suffix
                       ELSE y.suffix]

\* concat, lines 443-452: the trigrams that span the junction of x and y
concat_query(x, y, q) ==
    IF /\ x.exact_set = <<>> /\ y.exact_set = <<>>
       /\ Cardinality(x.suffix) <= 20 /\ Cardinality(y.prefix) <= 20
       /\ min_string_len(x.suffix) + min_string_len(y.prefix) >= 3
    THEN and_trigrams(q, cross_product(x.suffix, y.prefix))
    ELSE q

concat(x, y) ==
    simplify([concat_sets(x, y) EXCEPT
                !.query = concat_query(x, y, Query_and(x.query, y.query))],
             FALSE)

\* alternate, lines 466-484: exact set, prefix and suffix of x|y
alternate_sets(x, y) ==
    IF x.exact_set # <<>> /\ y.exact_set # <<>>
    THEN [RegexInfo_default EXCEPT !.exact_set = <<x.exact_set[1] \cup y.exact_set[1]>>]
    ELSE IF x.exact_set # <<>>
    THEN [RegexInfo_default EXCEPT !.prefix = x.exact_set[1] \cup y.prefix,
                                   !.suffix = x.exact_set[1] \cup y.suffix]
    ELSE IF y.exact_set # <<>>
    THEN [RegexInfo_default EXCEPT !.prefix = x.prefix \cup y.exact_set[1],
                                   !.suffix = x.suffix \cup y.exact_set[1]]
    ELSE [RegexInfo_default EXCEPT !.prefix = x.prefix \cup y.prefix,
                                   !.suffix = x.suffix \cup y.suffix]

\* alternate, lines 485-486: add_exact on the one side that is exact
alternate_query(x, y) ==
    IF x.exact_set # <<>> /\ y.exact_set = <<>>
    THEN Query_or(add_exact(x).query, y.query)
    ELSE IF x.exact_set = <<>> /\ y.exact_set # <<>>
    THEN Query_or(x.query, add_exact(y).query)
    ELSE Query_or(x.query, y.query)

alternate(x, y) ==
    simplify([alternate_sets(x, y) EXCEPT
                !.can_empty = x.can_empty \/ y.can_empty,
                !.query = alternate_query(x, y)],
             FALSE)

\* ------------------------------------------------------------------------
\* RegexInfo::analyze on a regex_syntax Expr.  An Expr is a record: t is the
\* variant, bytes the bytes of a Literal, es the sub-expressions, r the
\* Repeater, ranges the ClassRanges.  The ranges of a parsed class ascend
\* and the literals are ASCII and case sensitive.
\* ------------------------------------------------------------------------
Expr(t, bytes, es, r, ranges) ==
    [t |-> t, bytes |-> bytes, es |-> es, r |-> r, ranges |-> ranges]

Expr_Empty == Expr("Empty", <<>>, <<>>, "", <<>>)

Expr_Literal(bytes) == Expr("Literal", bytes, <<>>, "", <<>>)

Expr_AnyCharNoNL == Expr("AnyCharNoNL", <<>>, <<>>, "", <<>>)

Expr_Concat(es) == Expr("Concat", <<>>, es, "", <<>>)

Expr_Alternate(es) == Expr("Alternate", <<>>, es, "", <<>>)

Expr_Repeat(e, r) == Expr("Repeat", <<>>, <<e>>, r, <<>>)

Expr_Class(ranges) == Expr("Class", <<>>, <<>>, "", ranges)

Expr_Group(e) == Expr("Group", <<>>, <<e>>, "", <<>>)

\* analyze, Expr::Class: the loop over the ranges; a range of more than
\* 101 chars gives up
RECURSIVE class_loop(_, _)
class_loop(ranges, exact) ==
    IF ranges = <<>>
    THEN simplify([RegexInfo_default EXCEPT !.exact_set = <<exact>>], FALSE)
    ELSE IF Head(ranges).end - Head(ranges).start > 100 THEN any_char
    ELSE class_loop(Tail(ranges),
                    exact \cup {<<chr>> : chr \in Head(ranges).start..Head(ranges).end})

\* analyze, Repeater::OneOrMore
one_or_more(info) ==
    simplify(IF info.exact_set # <<>>
             THEN [info EXCEPT !.prefix = info.exact_set[1],
                               !.suffix = info.exact_set[1], !.exact_set = <<>>]
             ELSE info,
             FALSE)

RECURSIVE analyze(_)
RECURSIVE fold_concat(_, _)
fold_concat(a, exprs) ==
    IF exprs = <<>> THEN a
    ELSE fold_concat(concat(a, analyze(Head(exprs))), Tail(exprs))

RECURSIVE fold_alternate(_, _)
fold_alternate(a, v) ==
    IF v = <<>> THEN a
    ELSE fold_alternate(alternate(a, analyze(Head(v))), Tail(v))

analyze(expr) ==
    IF expr.t = "Empty" THEN empty_string
    ELSE IF expr.t = "Literal"
    THEN simplify([RegexInfo_default EXCEPT !.exact_set = <<{expr.bytes}>>], FALSE)
    ELSE IF expr.t = "AnyCharNoNL" THEN any_char
    ELSE IF expr.t = "Concat"
    THEN (IF expr.es = <<>> THEN empty_string
          ELSE fold_concat(analyze(Head(expr.es)), Tail(expr.es)))
    ELSE IF expr.t = "Alternate"
    THEN (IF expr.es = <<>> THEN no_match
          ELSE fold_alternate(analyze(Head(expr.es)), Tail(expr.es)))
    ELSE IF expr.t = "Repeat"
    THEN (IF expr.r = "ZeroOrOne" THEN alternate(analyze(expr.es[1]), empty_string)
          ELSE IF expr.r = "OneOrMore" THEN one_or_more(analyze(expr.es[1]))
          ELSE any_match)
    ELSE IF expr.t = "Class"
    THEN (IF expr.ranges = <<>> THEN no_match ELSE class_loop(expr.ranges, {}))
    ELSE analyze(expr.es[1])

\* RegexInfo::new
RegexInfo_new(expr) == add_exact(simplify(analyze(expr), TRUE))

\* ------------------------------------------------------------------------
\* Regex::is_match, as Grep applies it to the text of a file
\* (libcsearch/src/grep/grep.rs): match_ends is the set of offsets at which
\* a match of expr that starts at offset i of s can end.
\* ------------------------------------------------------------------------
in_class(ranges, c) ==
    \E k \in 1..Len(ranges) : ranges[k].start <= c /\ c <= ranges[k].end

RECURSIVE match_ends(_, _, _)
RECURSIVE concat_ends(_, _, _)
concat_ends(es, s, from) ==
    IF es = <<>> THEN from
    ELSE concat_ends(Tail(es), s, UNION {match_ends(Head(es), s, j) : j \in from})

RECURSIVE repeat_ends(_, _, _)
repeat_more(e, s, from, next) ==
    IF next = from THEN from ELSE repeat_ends(e, s, next)

repeat_ends(e, s, from) ==
    repeat_more(e, s, from, from \cup UNION {match_ends(e, s, j) : j \in from})

match_ends(expr, s, i) ==
    IF expr.t = "Empty" THEN {i}
    ELSE IF expr.t = "Literal"
    THEN (IF i + Len(expr.bytes) <= Len(s)
             /\ SubSeq(s, i + 1, i + Len(expr.bytes)) = expr.bytes
          THEN {i + Len(expr.bytes)} ELSE {})
    ELSE IF expr.t = "AnyCharNoNL"
    THEN (IF i < Len(s) /\ s[i + 1] # 10 THEN {i + 1} ELSE {})
    ELSE IF expr.t = "Class"
    THEN (IF i < Len(s) /\ in_class(expr.ranges, s[i + 1]) THEN {i + 1} ELSE {})
    ELSE IF expr.t = "Concat" THEN concat_ends(expr.es, s, {i})
    ELSE IF expr.t = "Alternate"
    THEN UNION {match_ends(expr.es[k], s, i) : k \in 1..Len(expr.es)}
    ELSE IF expr.t = "Repeat"
    THEN (IF expr.r = "ZeroOrOne" THEN {i} \cup match_ends(expr.es[1], s, i)
          ELSE IF expr.r = "OneOrMore"
          THEN repeat_ends(expr.es[1], s, match_ends(expr.es[1], s, i))
          ELSE repeat_ends(expr.es[1], s, {i}))
    ELSE match_ends(expr.es[1], s, i)

is_match(expr, s) == \E i \in 0..Len(s) : match_ends(expr, s, i) # {}

\* ------------------------------------------------------------------------
\* IndexReader::query and PostSet (reader/read.rs).  A PostSet is its list
\* of FileIDs; panic tells whether "corrupt index" was hit on the way.
\* ------------------------------------------------------------------------
PostSet_new == [panic |-> FALSE, list |-> {}]

\* the trigram of a query as the u32 the index is keyed by
trigram_u32(t) == t[1] * (2^16) + t[2] * (2^8) + t[3]

\* PostSet::and: the ids of the list that are in the trigram's posting list
PostSet_and_ids(ps, l) ==
    [panic |-> ps.panic \/ l.panic, list |-> {id \in l.ids : id \in ps.list}]

PostSet_and(r, ps, trigram) == PostSet_and_ids(ps, PostReader_list(r, trigram))

\* PostSet::or: the list extended by the trigram's posting list
PostSet_or_ids(ps, l) ==
    [panic |-> ps.panic \/ l.panic, list |-> ps.list \cup l.ids]

PostSet_or(r, ps, trigram) == PostSet_or_ids(ps, PostReader_list(r, trigram))

RECURSIVE IndexReader_query(_, _)
RECURSIVE and_fold(_, _, _)
and_fold(r, trigram_it, a) ==
    IF trigram_it = <<>> THEN a
    ELSE and_fold(r, Tail(trigram_it), PostSet_and(r, a, trigram_u32(Head(trigram_it))))

RECURSIVE or_fold(_, _, _)
or_fold(r, trigram_it, a) ==
    IF trigram_it = <<>> THEN a
    ELSE or_fold(r, Tail(trigram_it), PostSet_or(r, a, trigram_u32(Head(trigram_it))))

\* a sub-query fold of And that unites where it should intersect
meet_union(a, b) == [panic |-> a.panic \/ b.panic, list |-> a.list \cup b.list]

\* `a.list = &a.list & &b`
meet(a, b) == [panic |-> a.panic \/ b.panic, list |-> a.list \cap b.list]

RECURSIVE and_sub_fold(_, _, _)
and_sub_fold(r, sub_iter, a) ==
    IF sub_iter = <<>> THEN a
    ELSE and_sub_fold(r, Tail(sub_iter), meet(a, IndexReader_query(r, Head(sub_iter))))

\* `a.list.extend(b.into_iter())`
extend(a, b) == [panic |-> a.panic \/ b.panic, list |-> a.list \cup b.list]

RECURSIVE or_sub_fold(_, _, _)
or_sub_fold(r, sub_iter, a) ==
    IF sub_iter = <<>> THEN a
    ELSE or_sub_fold(r, Tail(sub_iter), extend(a, IndexReader_query(r, Head(sub_iter))))

\* IndexReader::query, QueryOperation::And
query_and(r, trigram_it, sub_iter) ==
    IF trigram_it # <<>>
    THEN and_sub_fold(r, sub_iter,
             and_fold(r, Tail(trigram_it),
                      PostSet_or(r, PostSet_new, trigram_u32(Head(trigram_it)))))
    ELSE IF sub_iter # <<>>
    THEN and_sub_fold(r, Tail(sub_iter), IndexReader_query(r, Head(sub_iter)))
    ELSE PostSet_new

IndexReader_query(r, query) ==
    IF query.operation = "None" THEN PostSet_new
    ELSE IF query.operation = "All"
    THEN [panic |-> FALSE, list |-> 0..(r.num_name - 1)]
    ELSE IF query.operation = "And"
    THEN query_and(r, btree_iter(query.trigram), query.sub)
    ELSE or_sub_fold(r, query.sub,
                     or_fold(r, btree_iter(query.trigram), PostSet_new))


\* ------------------------------------------------------------------------
\* Each specification below runs one subsystem; the variables of the other
\* subsystems rest in these idle values.
\* ------------------------------------------------------------------------
NoResult == [ok |-> FALSE, value |-> U64Zero, n |-> 0]

NoRead == [panic |-> FALSE, ids |-> <<>>]

VarintIdle ==
    /\ vpc = "idle" /\ vn = <<0, 0>> /\ vkind = "none" /\ vbytes = <<>>
    /\ vres = NoResult

PostIdle ==
    /\ ppc = "idle" /\ plist = <<>> /\ pkind = "none" /\ pbytes = <<>>
    /\ pcount = 0 /\ pread = NoRead

NoReader == [data |-> <<>>]

WriterIdle ==
    /\ wpc = "idle" /\ iw = IndexWriter_new(0) /\ added = <<>> /\ nadds = 0
    /\ wres = "none" /\ ir = NoReader

NoTree == [paths |-> <<>>, files |-> <<>>]

MergeIdle ==
    /\ mpc = "idle" /\ mtree1 = NoTree /\ mtree2 = NoTree /\ msrc1 = <<>>
    /\ msrc2 = <<>> /\ mdest = [panic |-> FALSE, dest |-> <<>>] /\ mir = NoReader

RegexIdle ==
    /\ rpc = "idle" /\ rexpr = Expr_Empty /\ rinfo = RegexInfo_default
    /\ rres = PostSet_new

TrigramIdle ==
    /\ tpc = "idle" /\ trd = TrigramReader_new(<<>>, 0, 0) /\ tout = <<>>
    /\ tcalls = 0

NoOr == [list |-> {}, trigram |-> 0, out |-> {}]

QueryIdle ==
    /\ qpc = "idle" /\ qquery = Query_none /\ qres = PostSet_new /\ por = NoOr

NoImplies == [aa |-> FALSE, ab |-> FALSE, bc |-> FALSE, ac |-> FALSE]

ImpliesIdle ==
    /\ ipc = "idle" /\ ia = Query_none /\ ib = Query_none /\ ic = Query_none
    /\ ires = NoImplies

NoFile == [present |-> FALSE, data |-> <<>>]

NoFiles == [index |-> NoFile, new |-> NoFile, dest |-> NoFile]

UpdateIdle == upc = "idle" /\ ufs = NoFiles /\ uold = <<>> /\ unew = NoTree

HeapIdle == hpc = "idle" /\ hruns = <<>> /\ hch = <<>> /\ hout = <<>>

DecodeIdle == dpc = "idle" /\ dbytes = <<>> /\ dres = NoResult

SparseIdle ==
    spc = "idle" /\ sset = SparseSet_new(0) /\ sghost = <<>> /\ stook = <<>>

AndOrIdle ==
    /\ apc = "idle" /\ aq = Query_none /\ ar = Query_none /\ aand = Query_none
    /\ aor = Query_none

SimplifyIdle == zpc = "idle" /\ zset = {} /\ zsuffix = FALSE /\ zout = {}

PipeIdle ==
    /\ kpc = "idle" /\ kcpc = "idle" /\ ktodo = <<>> /\ ksent = <<>>
    /\ kchan = <<>> /\ kseen = {} /\ koffered = <<>>

LastIdle ==
    DecodeIdle /\ SparseIdle /\ AndOrIdle /\ SimplifyIdle /\ PipeIdle

RestIdle ==
    /\ TrigramIdle /\ QueryIdle /\ ImpliesIdle /\ UpdateIdle /\ HeapIdle
    /\ LastIdle

\* ------------------------------------------------------------------------
\* Varint codec runs: a value is encoded by one of the two encoders and the
\* bytes are handed to read_uvarint.
\* ------------------------------------------------------------------------
HiSamples == {0, 1, 3, 31, 32, 4095, 4096, 32767, 32768, 65535}
LoSamples == {0, 1, 127, 128, 255, 256, 16383, 16384, 32768, 65535}
VarintSamples == {<<h, l>> : h \in HiSamples, l \in LoSamples}

VInit ==
    /\ vpc = "start"
    /\ vn \in VarintSamples
    /\ vkind = "none"
    /\ vbytes = <<>>
    /\ vres = NoResult
    /\ PostIdle /\ WriterIdle /\ MergeIdle /\ RegexIdle /\ RestIdle

VEncode ==
    /\ vpc = "start"
    /\ vbytes' = write_uvarint(vn)
    /\ vkind' = "lib"
    /\ vpc' = "encoded"
    /\ UNCHANGED <<vn, vres, postVars, writerVars, mergeVars, regexVars, restVars>>

VEncodeIdx ==
    /\ vpc = "start"
    /\ vbytes' = index_write_uvarint(vn)
    /\ vkind' = "idx"
    /\ vpc' = "encoded"
    /\ UNCHANGED <<vn, vres, postVars, writerVars, mergeVars, regexVars, restVars>>

VDecode ==
    /\ vpc = "encoded"
    /\ vres' = read_uvarint(vbytes)
    /\ vpc' = "decoded"
    /\ UNCHANGED <<vn, vkind, vbytes, postVars, writerVars, mergeVars, regexVars, restVars>>

VNext == VEncode \/ VEncodeIdx \/ VDecode

SpecVarint == VInit /\ [][VNext]_vars

\* C4: for every u32 n, read_uvarint applied to the bytes produced by
\* libvarint's write_uvarint(n) returns the value n together with a byte
\* count equal to the number of bytes written.
C4_VarintRoundTrip ==
    (vpc = "decoded" /\ vkind = "lib") =>
        /\ vres.ok
        /\ vres.value = U32AsU64(vn)
        /\ vres.n = Len(vbytes)

\* a five-byte value (bit 31 set) has made the round trip
C4_Witness ==
    /\ vpc = "decoded" /\ vkind = "lib"
    /\ vn = <<32768, 128>>
    /\ Len(vbytes) = 5
    /\ vres.ok

\* C30: for every u32 value x, the branch-per-length encoder of
\* index/varint.rs writes exactly the same bytes as the loop-based encoder
\* of libvarint.
C30_EncodersAgree ==
    vpc = "encoded" => vbytes = write_uvarint(vn)

\* ------------------------------------------------------------------------
\* Posting-list runs: a strictly increasing list of FileIDs is written by
\* one of the two writers and read back with the recorded count.
\* ------------------------------------------------------------------------
MaxListLen == 3

IdSamples ==
    {AsU32(0), AsU32(1), AsU32(126), AsU32(127), AsU32(16383),
     AsU32(32767), AsU32(40000), <<1, 0>>, <<32768, 5>>, <<65535, 65534>>}

RECURSIVE IncreasingLists(_)
IncreasingLists(n) ==
    IF n = 0 THEN {<<>>}
    ELSE LET shorter == IncreasingLists(n - 1)
         IN  shorter \cup
             {Append(l, x) : l \in {m \in shorter : Len(m) = n - 1},
                             x \in IdSamples}

StrictlyIncreasing(l) == \A i \in 1..(Len(l) - 1) : U32Lt(l[i], l[i + 1])

PostingSamples ==
    {l \in IncreasingLists(MaxListLen) : l # <<>> /\ StrictlyIncreasing(l)}

PInit ==
    /\ ppc = "start"
    /\ plist \in PostingSamples
    /\ pkind = "none" /\ pbytes = <<>> /\ pcount = 0 /\ pread = NoRead
    /\ VarintIdle /\ WriterIdle /\ MergeIdle /\ RegexIdle /\ RestIdle

PWrite ==
    /\ ppc = "start"
    /\ LET e == merge_post_deltas(plist)
       IN  pbytes' = e.bytes /\ pcount' = e.count
    /\ pkind' = "writer"
    /\ ppc' = "written"
    /\ UNCHANGED <<plist, pread, varintVars, writerVars, mergeVars, regexVars, restVars>>

PWriteMerge ==
    /\ ppc = "start"
    /\ LET e == post_data_writer_list(plist)
       IN  pbytes' = e.bytes /\ pcount' = e.count
    /\ pkind' = "merge"
    /\ ppc' = "written"
    /\ UNCHANGED <<plist, pread, varintVars, writerVars, mergeVars, regexVars, restVars>>

PRead ==
    /\ ppc = "written"
    /\ pread' = post_reader_list(pbytes, pcount)
    /\ ppc' = "read"
    /\ UNCHANGED <<plist, pkind, pbytes, pcount, varintVars, writerVars, mergeVars, regexVars, restVars>>

PNext == PWrite \/ PWriteMerge \/ PRead

SpecPost == PInit /\ [][PNext]_vars

\* C3: for any strictly increasing list of FileIDs, the writer's delta
\* encoding (predecessor u32::MAX, wrapping subtraction, varint deltas,
\* terminating zero) decoded by the reader's posting-list iterator yields
\* exactly the same list, and as many FileIDs as the recorded count.
C3_WriterListRoundTrip ==
    (ppc = "read" /\ pkind = "writer") =>
        /\ ~pread.panic
        /\ pread.ids = plist
        /\ Len(pread.ids) = pcount

\* ------------------------------------------------------------------------
\* Index writer runs: paths and files are added to an IndexWriter, the
\* posting buffer is spilled (by add when it holds NPOST entries, or by a
\* direct flush_post call), the writer is flushed and the index file is
\* opened by an IndexReader.
\* ------------------------------------------------------------------------
MaxAdds == 3

MaxRuns == 3

\* the files offered to the writer: name and content
Catalog ==
    { [name |-> <<97>>,  content |-> <<97, 98, 99>>],          \* a: "abc"
      [name |-> <<98>>,  content |-> <<120, 121, 122>>],       \* b: "xyz"
      [name |-> <<99>>,  content |-> <<98, 99, 100>>],         \* c: "bcd"
      [name |-> <<100>>, content |-> <<97, 98, 99, 100>>],     \* d: "abcd"
      [name |-> <<101>>, content |-> <<>>],                    \* e: empty
      [name |-> <<102>>, content |-> <<10, 10>>],              \* f: "\n\n"
      [name |-> <<103>>, content |-> <<97, 0, 98>>],           \* g: binary
      [name |-> <<255>>, content |-> <<97, 98, 99>>],          \* not UTF-8
      [name |-> <<105>>,                                       \* i: one
       content |-> <<97, 97, 97, 97, 97, 97, 97, 97, 195, 40>>] }  \* bad pair

PathSamples == { <<>>, << <<47, 97>> >> }

\* the values an uninitialised sparse slot may hold
JunkSamples == {0, 1}

WInit ==
    /\ wpc = "open"
    /\ \E junk \in JunkSamples, ps \in PathSamples :
           iw = add_paths(IndexWriter_new(junk), ps)
    /\ added = <<>>
    /\ nadds = 0
    /\ wres = "none"
    /\ ir = NoReader
    /\ VarintIdle /\ PostIdle /\ MergeIdle /\ RegexIdle /\ RestIdle

\* IndexWriter::add_file on one file of a catalog
AddFrom(catalog) ==
    /\ wpc = "open"
    /\ nadds < MaxAdds
    /\ \E f \in catalog :
         LET r == add(iw, f.name, f.content) IN
         /\ iw' = r.w
         /\ wres' = r.res
         /\ added' = IF r.res = "Ok"
                     THEN Append(added, [name |-> f.name, content |-> f.content,
                                         id |-> iw.number_of_names_written])
                     ELSE added
    /\ nadds' = nadds + 1
    /\ UNCHANGED <<wpc, ir, varintVars, postVars, mergeVars, regexVars, restVars>>

AddFile == AddFrom(Catalog)

\* IndexWriter::flush_post called directly, on a buffer that holds entries
\* (the run file of an empty buffer adds no chunk to the heap of merge_post)
FlushPost ==
    /\ wpc = "open"
    /\ iw.post # <<>>
    /\ Len(iw.post_files) < MaxRuns
    /\ iw' = flush_post(iw)
    /\ wres' = "Ok"
    /\ UNCHANGED <<wpc, added, nadds, ir, varintVars, postVars, mergeVars, regexVars, restVars>>

\* IndexWriter::flush
Flush ==
    /\ wpc = "open"
    /\ iw' = flush(iw)
    /\ wres' = "Ok"
    /\ wpc' = "flushed"
    /\ UNCHANGED <<added, nadds, ir, varintVars, postVars, mergeVars, regexVars, restVars>>

\* IndexReader::open on the flushed file
Open ==
    /\ wpc = "flushed"
    /\ ir' = IndexReader_open(iw.index)
    /\ wpc' = "read"
    /\ UNCHANGED <<iw, added, nadds, wres, varintVars, postVars, mergeVars, regexVars, restVars>>

Next == AddFile \/ FlushPost \/ Flush \/ Open

Spec == WInit /\ [][Next]_vars

\* the trigram of the 3-byte window of content that starts at byte i
Window(content, i) ==
    content[i] * (2^16) + content[i + 1] * 256 + content[i + 2]

\* the windows of content that TrigramReader does not skip as an invalid
\* UTF-8 pair (in a file that stays within its invalid-pair allowance)
ValidWindows(content) ==
    {i \in 1..(Len(content) - 2) : valid_utf8(content[i + 1], content[i + 2])}

\* C1: after any sequence of successful adds, with the posting buffer
\* spilled to run files any number of times in between, followed by
\* flush: for every indexed file F and every 3-byte window w of F's
\* content, the posting list stored in the index for trigram(w) contains
\* F's FileID.  Stated here for the windows that end in a valid UTF-8
\* pair only, which the claim implies.
C1_EveryWindowIsListed ==
    wpc = "read" =>
        \A k \in 1..Len(added) :
            \A i \in ValidWindows(added[k].content) :
                LET l == PostReader_list(ir, Window(added[k].content, i))
                IN  ~l.panic /\ added[k].id \in l.ids

\* the writer was flushed and opened with no path and no file handed to it
EmptyIndexRead == wpc = "read" /\ nadds = 0 /\ iw.paths = <<>>

\* C10 as stated: flushing a writer to which no paths and no files were
\* added gives an index that the reader opens with num_name = 0 and
\* num_post = 0.
C10_EmptyIndexNoPost ==
    EmptyIndexRead => (ir.num_name = 0 /\ ir.num_post = 0)

\* C10 amended: flushing a writer to which no paths and no files were
\* added gives an index that starts with the magic and ends with the
\* trailer magic, whose path list is empty, and that the reader opens with
\* num_name = 0 and num_post = 1, the one posting-list index entry being
\* the end entry (trigram 0xFFFFFF, count 0, offset 0).
C10_EmptyIndexOneEndEntry ==
    EmptyIndexRead =>
        /\ SubSeq(ir.data, 1, Len(MAGIC)) = MAGIC
        /\ Drop(ir.data, Len(ir.data) - Len(TRAILER_MAGIC)) = TRAILER_MAGIC
        /\ indexed_paths(ir) = <<>>
        /\ ir.num_name = 0
        /\ ir.num_post = 1
        /\ list_at(ir, 0) = [trigram |-> END_TRIGRAM, count |-> 0, offset |-> 0]

\* C10 witness: an empty writer was flushed and its index opened
C10_Witness == EmptyIndexRead /\ ir.data # <<>> /\ added = <<>>

\* the posting entries of the run files files, in the order written
RECURSIVE spilled_entries(_)
spilled_entries(files) ==
    IF files = <<>> THEN <<>>
    ELSE read_post_entries(Head(files)) \o spilled_entries(Tail(files))

\* the writer that was handed the same calls as w but whose posting buffer
\* was never spilled: every entry is still in the in-memory buffer
kept_in_memory(w) ==
    [w EXCEPT !.post = spilled_entries(w.post_files) \o w.post,
              !.post_files = <<>>]

\* C11: for the same sequence of added files, flush writes a byte-identical
\* index file whether the posting entries were kept in the in-memory
\* buffer until flush or were spilled to run files with flush_post before
\* flush.
C11_SpillEquivalence ==
    [][(wpc = "open" /\ wpc' = "flushed") =>
           iw'.index = flush(kept_in_memory(iw)).index]_vars

\* the trigrams of the entries of the posting-list index, in file order
IndexedTrigrams(r) ==
    [i \in 1..r.num_post |-> list_at(r, (i - 1) * POST_ENTRY_SIZE).trigram]

\* the full 3-byte windows of the indexed files / those TrigramReader keeps
FullWindows ==
    UNION { {Window(added[k].content, i) : i \in 1..(Len(added[k].content) - 2)} :
            k \in 1..Len(added) }

KeptWindows ==
    UNION { {Window(added[k].content, i) : i \in ValidWindows(added[k].content)} :
            k \in 1..Len(added) }

\* C12: the posting-list section of a written index contains exactly one
\* list per distinct full 3-byte window that occurs in some indexed file
\* and no other list (but the end entry): a file shorter than three bytes
\* receives a name and a FileID but appears in no posting list.  The
\* windows required to be listed are those that end in a valid UTF-8 pair.
C12_ListsAreFullWindows ==
    wpc = "read" =>
        LET ts     == IndexedTrigrams(ir)
            listed == {ts[i] : i \in 1..Len(ts)} \ {END_TRIGRAM}
        IN  /\ listed \subseteq FullWindows
            /\ KeptWindows \subseteq listed
            /\ \A i, j \in 1..Len(ts) : i # j => ts[i] # ts[j]
            /\ \A k \in 1..Len(added) :
                   Len(added[k].content) < 3 =>
                       /\ IndexReader_name(ir, added[k].id) = added[k].name
                       /\ \A t \in listed :
                              added[k].id \notin PostReader_list(ir, t).ids

\* an add call was made and it returned an error
AddFailed == wpc = "open" /\ nadds' = nadds + 1 /\ wres' # "Ok"

\* C14: when adding a file fails with a skip-class error (file too long,
\* binary data, too many invalid UTF-8 pairs, line too long, too many
\* trigrams, or a file name that cannot be encoded), the file is omitted
\* from the index: the writer's name data, name index, next FileID, byte
\* counters and posting buffer are exactly as before the call, so the
\* flushed index is identical to one built without ever offering that file.
C14_RejectedFileLeavesNoTrace ==
    [][AddFailed =>
           /\ iw'.name_data = iw.name_data
           /\ iw'.name_index = iw.name_index
           /\ iw'.number_of_names_written = iw.number_of_names_written
           /\ iw'.bytes_written = iw.bytes_written
           /\ iw'.post = iw.post
           /\ iw'.post_files = iw.post_files
           /\ flush(iw').index = flush(iw).index]_vars

\* C15: FileIDs are dense and strictly increasing in the order files are
\* successfully added: the k-th successfully added file (counting from 0)
\* gets FileID k, rejected files consume no FileID, and after flush the
\* reader's name(k) is that file's name.
C15_DenseFileIds ==
    /\ wpc \in {"open", "flushed", "read"} =>
           /\ \A k \in 1..Len(added) : added[k].id = k - 1
           /\ wpc = "open" => iw.number_of_names_written = Len(added)
    /\ wpc = "read" =>
           \A k \in 1..Len(added) : IndexReader_name(ir, k - 1) = added[k].name

\* ------------------------------------------------------------------------
\* Merge runs: two source trees are indexed by the writer (files added in
\* name order, as cindex does), the two index files are merged and the
\* merged file is opened by an IndexReader.
\* ------------------------------------------------------------------------
\* the source trees: the paths handed to add_paths and the files, by name
Trees ==
    { [paths |-> <<>>, files |-> <<>>],
      [paths |-> << <<97>> >>,
       files |-> << [name |-> <<97, 47, 120>>, content |-> <<97, 98, 99>>] >>],
      [paths |-> << <<97>>, <<98>> >>,
       files |-> << [name |-> <<97, 47, 120>>, content |-> <<97, 98, 99>>],
                    [name |-> <<98, 47, 120>>, content |-> <<98, 99, 100>>] >>],
      [paths |-> << <<98>> >>,
       files |-> << [name |-> <<98, 47, 119>>, content |-> <<97, 98, 99, 100>>],
                    [name |-> <<98, 47, 120>>, content |-> <<120, 121, 122>>] >>],
      [paths |-> << <<97>>, <<99>> >>,
       files |-> << [name |-> <<97, 47, 121>>, content |-> <<120, 121, 122>>],
                    [name |-> <<99, 47, 100>>, content |-> <<97, 98, 99>>] >>],
      [paths |-> << <<98>>, <<99, 99>> >>,
       files |-> << [name |-> <<98, 47, 120>>, content |-> <<97, 98, 99>>],
                    [name |-> <<99, 99>>, content |-> <<98, 99, 100>>] >>],
      [paths |-> << <<97>>, <<98>>, <<99>> >>,
       files |-> << [name |-> <<97, 47, 120>>, content |-> <<97, 98, 99>>],
                    [name |-> <<98, 47, 120>>, content |-> <<97, 98, 99, 100>>],
                    [name |-> <<99, 47, 97>>, content |-> <<98, 99, 100>>],
                    [name |-> <<99, 47, 100>>, content |-> <<120, 121, 122>>] >>] }

\* IndexWriter::add for every file of the tree, in order
RECURSIVE add_all(_, _)
add_all(w, files) ==
    IF files = <<>> THEN w
    ELSE add_all(add(w, Head(files).name, Head(files).content).w, Tail(files))

\* the index file the writer produces for a tree
build_index(tree) ==
    flush(add_all(add_paths(IndexWriter_new(0), tree.paths), tree.files)).index

NoMerge == [panic |-> FALSE, dest |-> <<>>]

MInit ==
    /\ mpc = "built"
    /\ mtree1 \in Trees
    /\ mtree2 \in Trees
    /\ msrc1 = build_index(mtree1)
    /\ msrc2 = build_index(mtree2)
    /\ mdest = NoMerge
    /\ mir = NoReader
    /\ VarintIdle /\ PostIdle /\ WriterIdle /\ RegexIdle /\ RestIdle

\* merge(dest, src1, src2)
Merge ==
    /\ mpc = "built"
    /\ mdest' = merge(msrc1, msrc2)
    /\ mpc' = "merged"
    /\ UNCHANGED <<mtree1, mtree2, msrc1, msrc2, mir, varintVars, postVars, writerVars, regexVars, restVars>>

\* IndexReader::open on the merged file
OpenMerged ==
    /\ mpc = "merged"
    /\ ~mdest.panic
    /\ mir' = IndexReader_open(mdest.dest)
    /\ mpc' = "read"
    /\ UNCHANGED <<mtree1, mtree2, msrc1, msrc2, mdest, varintVars, postVars, writerVars, regexVars, restVars>>

MNext == Merge \/ OpenMerged

SpecMerge == MInit /\ [][MNext]_vars

\* the names an IndexReader reports, by FileID
NamesOf(r) == [i \in 1..r.num_name |-> IndexReader_name(r, i - 1)]

\* the trigrams that have an entry in the posting-list index
TrigramsOf(r) ==
    {list_at(r, k * POST_ENTRY_SIZE).trigram : k \in 0..(r.num_post - 1)}

\* a name lies under path P when P <= name < limit(P)
Under(name, path) == StrLe(path, name) /\ StrLt(name, path_limit(path))

Shadowed(name, paths) == \E k \in 1..Len(paths) : Under(name, paths[k])

TreeNames(tree) == {tree.files[k].name : k \in 1..Len(tree.files)}

\* the names the merged index is to hold
ExpectedNames ==
    {n \in TreeNames(mtree1) : ~Shadowed(n, mtree2.paths)} \cup TreeNames(mtree2)

RECURSIVE SortedStrs(_)
SortedStrs(S) ==
    IF S = {} THEN <<>>
    ELSE LET m == CHOOSE x \in S : \A y \in S : StrLe(x, y)
         IN  <<m>> \o SortedStrs(S \ {m})

\* C5: the name list of the merged index consists of exactly the names of
\* A that do not lie under any path of B together with all names of B, in
\* ascending order, with FileIDs 0..n-1 assigned in that order.
C5_MergedNames ==
    mpc = "read" => NamesOf(mir) = SortedStrs(ExpectedNames)

\* names of A have been dropped under a path of B, others kept
C5_Witness ==
    /\ mpc = "read"
    /\ \E n \in TreeNames(mtree1) : Shadowed(n, mtree2.paths)
    /\ \E n \in TreeNames(mtree1) : ~Shadowed(n, mtree2.paths)
    /\ mir.num_name = 5

\* the FileID a name has in the merged index
NewId(name) == CHOOSE i \in 0..(mir.num_name - 1) : IndexReader_name(mir, i) = name

\* the merged FileIDs of the files that carry trigram t in A (unless
\* shadowed) or in B
ExpectedList(t) ==
    LET r1 == IndexReader_open(msrc1)
        r2 == IndexReader_open(msrc2)
    IN  {NewId(IndexReader_name(r1, i)) :
            i \in {j \in PostReader_list(r1, t).ids :
                      ~Shadowed(IndexReader_name(r1, j), mtree2.paths)}}
        \cup {NewId(IndexReader_name(r2, i)) : i \in PostReader_list(r2, t).ids}

\* the posting list of t as PostReader::next yields it
PostReader_seq(r, t) ==
    LET fl == find_list(r, t) IN
    IF fl.count = 0 THEN NoRead
    ELSE post_reader_list(Drop(r.data, r.post_data + fl.offset + 3), fl.count)

AllTrigrams ==
    TrigramsOf(IndexReader_open(msrc1)) \cup TrigramsOf(IndexReader_open(msrc2))
        \cup TrigramsOf(mir)

\* C6: for every trigram t, the merged index's posting list for t is
\* exactly the set of new FileIDs of the non-shadowed files of A that
\* contain t and of the files of B that contain t; the list is strictly
\* increasing and contains no duplicate.
C6_MergedLists ==
    mpc = "read" =>
        \A t \in AllTrigrams :
            LET l == PostReader_seq(mir, t) IN
            /\ ~l.panic
            /\ StrictlyIncreasing(l.ids)
            /\ {U32AsNat(l.ids[i]) : i \in 1..Len(l.ids)} = ExpectedList(t)

\* a trigram carried by a kept file of A and a file of B, with a shadowed
\* file of A left out of its list
C6_Witness ==
    /\ mpc = "read"
    /\ \E t \in AllTrigrams :
          LET r1 == IndexReader_open(msrc1)
              r2 == IndexReader_open(msrc2)
          IN  /\ \E j \in PostReader_list(r1, t).ids :
                     Shadowed(IndexReader_name(r1, j), mtree2.paths)
              /\ \E j \in PostReader_list(r1, t).ids :
                     ~Shadowed(IndexReader_name(r1, j), mtree2.paths)
              /\ PostReader_list(r2, t).ids # {}
              /\ Cardinality(PostReader_list(mir, t).ids) >= 2

\* the posting-list section and the posting-list index of an index file
PostSection(r) == SubSeq(r.data, r.post_data + 1, r.name_index)

PostIndexSection(r) ==
    SubSeq(r.data, r.post_index + 1, Len(r.data) - Len(TRAILER_MAGIC) - 5 * 4)

EndsWith(s, tail) ==
    Len(s) >= Len(tail) /\ SubSeq(s, Len(s) - Len(tail) + 1, Len(s)) = tail

\* the posting-list section ends with the trigram 0xFFFFFF and one zero
\* varint, the posting-list index with the entry (0xFFFFFF, 0, 0)
HasSentinels(r) ==
    /\ EndsWith(PostSection(r), write_trigram(END_TRIGRAM) \o <<0>>)
    /\ EndsWith(PostIndexSection(r),
                write_trigram(END_TRIGRAM) \o write_u32(0) \o write_u32(0))

\* entry i (from 0) of the name index
NameIndexEntry(r, i) == read_u32(r.data, r.name_index + 4 * i)

\* the bytes between name_index[i] and name_index[i + 1] are name(i), NUL
NameSpansOk(r) ==
    \A i \in 0..(r.num_name - 1) :
        /\ NameIndexEntry(r, i) <= NameIndexEntry(r, i + 1)
        /\ SubSeq(r.data, r.name_data + NameIndexEntry(r, i) + 1,
                  r.name_data + NameIndexEntry(r, i + 1))
               = IndexReader_name(r, i) \o <<0>>

\* the lists of two indexes agree on every trigram either of them indexes
SameLists(r, q) ==
    \A t \in TrigramsOf(r) \cup TrigramsOf(q) :
        PostReader_seq(r, t) = PostReader_seq(q, t)

\* C7: merging an index A with an empty index (no paths, no names, no
\* posting lists) produces an index equivalent to A: the same path list,
\* the same name list with the same FileIDs, and the same posting list
\* for every trigram.
C7_MergeWithEmpty ==
    (mpc = "read" /\ mtree2 = NoTree) =>
        LET r1 == IndexReader_open(msrc1) IN
        /\ indexed_paths(mir) = indexed_paths(r1)
        /\ NamesOf(mir) = NamesOf(r1)
        /\ SameLists(mir, r1)

\* C8: every index file produced, by IndexWriter::flush (src1, src2) or by
\* merge (dest), ends its posting-list section with the sentinel trigram
\* 0xFFFFFF followed by a single zero varint, and ends its posting-list
\* index with the entry (trigram 0xFFFFFF, count 0, offset 0).
C8_Sentinels ==
    mpc = "read" =>
        /\ HasSentinels(IndexReader_open(msrc1))
        /\ HasSentinels(IndexReader_open(msrc2))
        /\ HasSentinels(mir)

\* C9: in every index file produced by the writer (src1, src2) or by the
\* merger (dest), for every FileID i < num_name, the bytes of the name
\* section between name_index[i] and name_index[i+1] are exactly name(i)
\* followed by one NUL byte, the last name included.
C9_NameSpans ==
    mpc = "read" =>
        /\ NameSpansOk(IndexReader_open(msrc1))
        /\ NameSpansOk(IndexReader_open(msrc2))
        /\ NameSpansOk(mir)

\* the paths of ps, in order, without those that have the previously kept
\* path as a prefix
RECURSIVE SuppressPrefixed(_, _)
SuppressPrefixed(ps, last) ==
    IF ps = <<>> THEN <<>>
    ELSE IF starts_with(Head(ps), last) THEN SuppressPrefixed(Tail(ps), last)
    ELSE <<Head(ps)>> \o SuppressPrefixed(Tail(ps), Head(ps))

PathsOf(tree) == {tree.paths[k] : k \in 1..Len(tree.paths)}

\* C21: the path list of a merged index is the sorted merge of all paths of
\* A and all paths of B, from which exactly those paths are removed that
\* have the previously emitted path as a prefix; every other path of A and
\* of B appears in it, whichever of the two lists is exhausted first.
C21_MergedPaths ==
    mpc = "read" =>
        indexed_paths(mir) =
            SuppressPrefixed(SortedStrs(PathsOf(mtree1) \cup PathsOf(mtree2)),
                             <<0>>)

\* the id ranges merge computes for the two source files
IdMaps ==
    id_ranges(IndexReader_open(msrc1), IndexReader_open(msrc2),
              indexed_paths(IndexReader_open(msrc2)))

\* the new ids an IdRange maps to: [new, new + high - low)
Target(m) == {m.new + k : k \in 0..(m.high - m.low - 1)}

\* every name of B lies under one of B's paths
BNamesUnderPaths ==
    LET ix2 == IndexReader_open(msrc2) IN
    \A i \in 0..(ix2.num_name - 1) :
        Shadowed(IndexReader_name(ix2, i), indexed_paths(ix2))

\* C28: in merge, for any A and any B whose names all lie under B's paths,
\* the id ranges computed for A and for B are pairwise disjoint in their
\* target ranges [new, new + high - low) and together cover [0, num_name)
\* with no gap, so the name-emission loop writes exactly num_name names and
\* never reaches the "inconsistent index" panic.
C28_IdRangesPartition ==
    (mpc \in {"merged", "read"} /\ BNamesUnderPaths) =>
        LET ranges == IdMaps.map1 \o IdMaps.map2 IN
        /\ ~IdMaps.panic
        /\ \A i \in 1..Len(ranges) : \A j \in 1..Len(ranges) :
               i # j => Target(ranges[i]) \cap Target(ranges[j]) = {}
        /\ UNION {Target(ranges[i]) : i \in 1..Len(ranges)}
               = 0..(IdMaps.num_name - 1)
        /\ ~mdest.panic
        /\ mpc = "read" => mir.num_name = IdMaps.num_name

\* C28 witness: a path of B shadows the middle of A's names, so A gets a
\* range before and a range after B's range, and dest has been opened
C28_Witness ==
    /\ mpc = "read"
    /\ BNamesUnderPaths
    /\ Len(IdMaps.map1) = 2
    /\ Len(IdMaps.map2) = 1
    /\ mir.num_name = 5

\* ------------------------------------------------------------------------
\* Regex query runs: files are indexed by the writer in one run (no
\* flush_post in between), the index is flushed and opened, a parsed regex
\* is analyzed by RegexInfo::new and its query is executed on the index.
\* ------------------------------------------------------------------------
\* "xyba", "xya", "abcd", "bbc"
RegexCatalog ==
    { [name |-> <<112>>, content |-> <<120, 121, 98, 97>>],
      [name |-> <<113>>, content |-> <<120, 121, 97>>],
      [name |-> <<114>>, content |-> <<97, 98, 99, 100>>],
      [name |-> <<115>>, content |-> <<98, 98, 99>>] }

\* abc, abcd, ab, xy(a|ba)+, abc|xya, ab.d, (abc)*, xyb?a, [a-b]bc,
\* [a-z]bcd, the empty regex, (ab)+cd, (abc|bbc)d?, x.+a
RegexSamples ==
    { Expr_Literal(<<97, 98, 99>>),
      Expr_Literal(<<97, 98, 99, 100>>),
      Expr_Literal(<<97, 98>>),
      Expr_Concat(<<Expr_Literal(<<120, 121>>),
                    Expr_Repeat(Expr_Group(Expr_Alternate(
                        <<Expr_Literal(<<97>>), Expr_Literal(<<98, 97>>)>>)),
                        "OneOrMore")>>),
      Expr_Alternate(<<Expr_Literal(<<97, 98, 99>>), Expr_Literal(<<120, 121, 97>>)>>),
      Expr_Concat(<<Expr_Literal(<<97, 98>>), Expr_AnyCharNoNL, Expr_Literal(<<100>>)>>),
      Expr_Repeat(Expr_Group(Expr_Literal(<<97, 98, 99>>)), "ZeroOrMore"),
      Expr_Concat(<<Expr_Literal(<<120, 121>>),
                    Expr_Repeat(Expr_Literal(<<98>>), "ZeroOrOne"),
                    Expr_Literal(<<97>>)>>),
      Expr_Concat(<<Expr_Class(<<[start |-> 97, end |-> 98]>>),
                    Expr_Literal(<<98, 99>>)>>),
      Expr_Concat(<<Expr_Class(<<[start |-> 97, end |-> 122]>>),
                    Expr_Literal(<<98, 99, 100>>)>>),
      Expr_Empty,
      Expr_Concat(<<Expr_Repeat(Expr_Group(Expr_Literal(<<97, 98>>)), "OneOrMore"),
                    Expr_Literal(<<99, 100>>)>>),
      Expr_Concat(<<Expr_Group(Expr_Alternate(
                        <<Expr_Literal(<<97, 98, 99>>), Expr_Literal(<<98, 98, 99>>)>>)),
                    Expr_Repeat(Expr_Literal(<<100>>), "ZeroOrOne")>>),
      Expr_Concat(<<Expr_Literal(<<120>>),
                    Expr_Repeat(Expr_AnyCharNoNL, "OneOrMore"),
                    Expr_Literal(<<97>>)>>) }

RInit ==
    /\ wpc = "open"
    /\ \E junk \in JunkSamples : iw = IndexWriter_new(junk)
    /\ added = <<>>
    /\ nadds = 0
    /\ wres = "none"
    /\ ir = NoReader
    /\ rpc = "parsed"
    /\ rexpr \in RegexSamples
    /\ rinfo = RegexInfo_default
    /\ rres = PostSet_new
    /\ VarintIdle /\ PostIdle /\ MergeIdle /\ RestIdle

RAddFile == AddFrom(RegexCatalog)

\* RegexInfo::new on the parsed regex
Analyze ==
    /\ rpc = "parsed"
    /\ rinfo' = RegexInfo_new(rexpr)
    /\ rpc' = "analyzed"
    /\ UNCHANGED <<rexpr, rres, varintVars, postVars, writerVars, mergeVars, restVars>>

\* IndexReader::query on the query of the RegexInfo
Execute ==
    /\ rpc = "analyzed"
    /\ wpc = "read"
    /\ rres' = IndexReader_query(ir, rinfo.query)
    /\ rpc' = "done"
    /\ UNCHANGED <<rexpr, rinfo, varintVars, postVars, writerVars, mergeVars, restVars>>

RNext == RAddFile \/ Flush \/ Open \/ Analyze \/ Execute

SpecRegex == RInit /\ [][RNext]_vars

\* C2: for every regex R and every indexed file F whose content contains a
\* match of R, F's FileID is in the result of executing
\* RegexInfo::new(R).query against the index (no false negatives).
C2_NoFalseNegatives ==
    rpc = "done" =>
        /\ ~rres.panic
        /\ \A k \in 1..Len(added) :
               is_match(rexpr, added[k].content) => added[k].id \in rres.list

\* ------------------------------------------------------------------------
\* Trigram stream runs: a TrigramReader is opened on a source and its
\* next() is called again and again, also after it returned None.
\* ------------------------------------------------------------------------
MaxSrcLen == 4

MaxNextCalls == 5

\* a NUL, a newline, an ASCII letter and the first byte of a 2-byte sequence
TrigramBytes == {0, 10, 97, 195}

TrigramSources == UNION { [1..k -> TrigramBytes] : k \in 0..MaxSrcLen }

TInit ==
    /\ tpc = "open"
    /\ \E src \in TrigramSources, max_invalid \in {0, 1},
          max_line_len \in {0, 1, MAX_LINE_LEN} :
           trd = TrigramReader_new(src, max_invalid, max_line_len)
    /\ tout = <<>>
    /\ tcalls = 0
    /\ LastIdle
    /\ VarintIdle /\ PostIdle /\ WriterIdle /\ MergeIdle /\ RegexIdle
    /\ QueryIdle /\ ImpliesIdle /\ UpdateIdle /\ HeapIdle

\* one call of TrigramReader::next
TNextCall ==
    /\ tpc = "open"
    /\ tcalls < MaxNextCalls
    /\ LET step == TrigramReader_next(trd) IN
         /\ trd' = step.rd
         /\ tout' = tout \o step.out
    /\ tcalls' = tcalls + 1
    /\ UNCHANGED <<lastVars, tpc, varintVars, postVars, writerVars, mergeVars,
                   regexVars, queryVars, impliesVars, updateVars, heapVars>>

TNext == TNextCall

SpecTrigram == TInit /\ [][TNext]_vars

\* the value accumulated from a source of one or two bytes
ShortValue(src) == IF Len(src) = 1 THEN src[1] ELSE src[1] * 256 + src[2]

CleanSource(src) ==
    /\ \A i \in 1..Len(src) : src[i] # 0
    /\ \A i \in 1..(Len(src) - 1) : valid_utf8(src[i], src[i + 1])

\* some line of src (bytes between consecutive newline bytes, or from the
\* start of the file) is longer than max bytes
HasLongLine(src, max) ==
    \E i \in 1..Len(src) : \E j \in i..Len(src) :
        /\ j - i + 1 > max
        /\ \A k \in i..j : src[k] # 10

\* some call of next() has returned None
StreamEnded == tcalls > Len(tout)

\* C22: for a source without NUL bytes and without invalid UTF-8 pairs, the
\* trigram stream stops with LineTooLong whenever some line is longer than
\* max_line_len bytes, and never reports LineTooLong when every line is at
\* most max_line_len bytes long.
C22_LineTooLongIffLongLine ==
    (tpc = "open" /\ CleanSource(trd.src) /\ StreamEnded) =>
        (trd.error = "LineTooLong"
            <=> HasLongLine(trd.src, trd.max_line_len))

\* C23: once the trigram stream has hit an error, the iteration has halted:
\* every later call to next yields no trigram and reads no further input,
\* and the error that was recorded is not replaced by another one.
C23_ErrorHaltsIteration ==
    [][(tpc = "open" /\ trd.error # "none") =>
           (tout' = tout /\ trd'.pos = trd.pos /\ trd'.error = trd.error)]_vars

\* ------------------------------------------------------------------------
\* Reader call runs: an index is written from the files of RegexCatalog and
\* opened; then IndexReader::query or PostReader::or is called on it once.
\* ------------------------------------------------------------------------
\* the trigrams "abc", "bcd", "bbc", "xya", "xyb", "yba" of the catalog and
\* "zzz", which no file holds
Tabc == <<97, 98, 99>>
Tbcd == <<98, 99, 100>>
Tbbc == <<98, 98, 99>>
Txya == <<120, 121, 97>>
Txyb == <<120, 121, 98>>
Tyba == <<121, 98, 97>>
Tzzz == <<122, 122, 122>>

QueryTrigrams == {Tabc, Tbcd, Tbbc, Txya, Txyb, Tyba, Tzzz}

QAnd(trigram, sub) == [operation |-> "And", trigram |-> trigram, sub |-> sub]

QOr(trigram, sub) == [operation |-> "Or", trigram |-> trigram, sub |-> sub]

\* Query trees; every AND node has a trigram or a sub-query
QuerySamples ==
    { Query_none, Query_all,
      QAnd({Tabc}, <<>>), QAnd({Tabc, Tbcd}, <<>>), QAnd({Tabc, Tzzz}, <<>>),
      QAnd({Txyb, Tyba}, <<>>), QAnd({Tabc, Txya}, <<>>), QAnd({Tzzz}, <<>>),
      QOr({}, <<>>), QOr({Tabc, Txya}, <<>>), QOr({Tzzz}, <<>>),
      QOr({Tzzz, Tbbc}, <<>>), QOr({Tbcd, Tbbc, Tyba}, <<>>),
      QAnd({}, <<QOr({Tabc, Txya}, <<>>), QOr({Tbcd, Tbbc}, <<>>)>>),
      QAnd({Tabc}, <<QOr({Tbcd, Txya}, <<>>)>>),
      QAnd({Tabc}, <<Query_all>>), QAnd({Tabc}, <<Query_none>>),
      QAnd({}, <<Query_all, QOr({Tabc, Tbbc}, <<>>)>>),
      QAnd({}, <<Query_all>>),
      QOr({Txya}, <<QAnd({Tabc, Tbcd}, <<>>)>>),
      QOr({}, <<QAnd({Txyb, Tyba}, <<>>), QAnd({Tabc}, <<>>)>>),
      QOr({Tbbc}, <<Query_all>>), QOr({Tbbc}, <<Query_none>>),
      QAnd({}, <<QOr({Txya}, <<QAnd({Tabc, Tbcd}, <<>>)>>), QOr({Tabc, Tbbc}, <<>>)>>),
      QOr({Tzzz}, <<QAnd({Tbcd}, <<QOr({Tabc, Txya}, <<>>)>>)>>) }

QInit ==
    /\ wpc = "open"
    /\ \E junk \in JunkSamples : iw = IndexWriter_new(junk)
    /\ added = <<>>
    /\ nadds = 0
    /\ wres = "none"
    /\ ir = NoReader
    /\ qpc = "ready"
    /\ qquery = Query_none
    /\ qres = PostSet_new
    /\ por = NoOr
    /\ LastIdle
    /\ VarintIdle /\ PostIdle /\ MergeIdle /\ RegexIdle /\ TrigramIdle
    /\ ImpliesIdle /\ UpdateIdle /\ HeapIdle

\* IndexReader::query
RunQuery ==
    /\ wpc = "read"
    /\ qpc = "ready"
    /\ \E q \in QuerySamples :
           /\ qquery' = q
           /\ qres' = IndexReader_query(ir, q)
    /\ qpc' = "queried"
    /\ por' = NoOr
    /\ UNCHANGED <<lastVars, varintVars, postVars, writerVars, mergeVars, regexVars,
                   trigramVars, impliesVars, updateVars, heapVars>>

\* PostReader::or
RunPostOr ==
    /\ wpc = "read"
    /\ qpc = "ready"
    /\ \E list \in SUBSET (0..(MaxAdds - 1)), t \in QueryTrigrams :
           por' = [list |-> list, trigram |-> trigram_u32(t),
                   out |-> PostReader_or(ir, list, trigram_u32(t))]
    /\ qpc' = "unioned"
    /\ qquery' = Query_none
    /\ qres' = PostSet_new
    /\ UNCHANGED <<lastVars, varintVars, postVars, writerVars, mergeVars,
                   regexVars, trigramVars, impliesVars, updateVars, heapVars>>

QNext == RAddFile \/ Flush \/ Open \/ RunQuery \/ RunPostOr

SpecQuery == QInit /\ [][QNext]_vars

\* the FileIDs that are in every set of the non-empty family sets
Intersection(sets) == {id \in UNION sets : \A x \in sets : id \in x}

\* a Query tree evaluated as a boolean formula over the posting lists
RECURSIVE Eval(_, _)
Eval(r, q) ==
    LET children ==
            {PostReader_list(r, trigram_u32(t)).ids : t \in q.trigram}
            \cup {Eval(r, q.sub[i]) : i \in 1..Len(q.sub)}
    IN  IF q.operation = "None" THEN {}
        ELSE IF q.operation = "All" THEN {id \in 0..r.num_name : id < r.num_name}
        ELSE IF q.operation = "And" THEN Intersection(children)
        ELSE UNION children

C17_PostOrIsUnion ==
    qpc = "unioned" =>
        LET l == PostReader_list(ir, por.trigram) IN
        /\ ~l.panic
        /\ por.out = por.list \cup l.ids
        /\ find_list(ir, por.trigram).count = 0 => por.out = por.list

\* ------------------------------------------------------------------------
\* Implies runs: three Query trees are drawn and compared with
\* Query::implies.
\* ------------------------------------------------------------------------
ImpliesSamples ==
    { Query_none, Query_all,
      QAnd({}, <<>>), QAnd({Tabc}, <<>>), QAnd({Tabc, Tbcd}, <<>>),
      QOr({}, <<>>), QOr({Tabc}, <<>>), QOr({Tabc, Tbcd}, <<>>),
      QOr({Tabc, Tbcd, Tbbc}, <<>>),
      QAnd({Tabc}, <<QOr({Tbcd, Tbbc}, <<>>)>>),
      QAnd({Tabc}, <<QOr({Tabc, Tbcd}, <<>>)>>),
      QAnd({}, <<QOr({Tabc, Tbcd}, <<>>), QOr({Tbcd, Tbbc}, <<>>)>>),
      QOr({Tabc}, <<QAnd({Tbcd, Tbbc}, <<>>)>>),
      QOr({}, <<QAnd({Tabc, Tbcd}, <<>>), QAnd({Tbbc}, <<>>)>>) }

IInit ==
    /\ ipc = "drawn"
    /\ ia \in ImpliesSamples
    /\ ib \in ImpliesSamples
    /\ ic \in ImpliesSamples
    /\ ires = NoImplies
    /\ LastIdle
    /\ VarintIdle /\ PostIdle /\ WriterIdle /\ MergeIdle /\ RegexIdle
    /\ TrigramIdle /\ QueryIdle /\ UpdateIdle /\ HeapIdle

\* the four calls of Query::implies
Compare ==
    /\ ipc = "drawn"
    /\ ires' = [aa |-> implies(ia, ia), ab |-> implies(ia, ib),
                bc |-> implies(ib, ic), ac |-> implies(ia, ic)]
    /\ ipc' = "compared"
    /\ UNCHANGED <<lastVars, ia, ib, ic, varintVars, postVars, writerVars, mergeVars,
                   regexVars, trigramVars, queryVars, updateVars, heapVars>>

INext == Compare

SpecImplies == IInit /\ [][INext]_vars

\* C18 as stated: Query::implies is reflexive (q.implies(q) holds for every
\* Query q, including AND and OR nodes that have sub-queries) and
\* transitive (p.implies(q) and q.implies(r) give p.implies(r)), with NONE
\* implying every query and every query implying ALL.
C18_ImpliesPreorder ==
    ipc = "compared" =>
        /\ ires.aa
        /\ (ires.ab /\ ires.bc) => ires.ac
        /\ ia.operation = "None" => ires.ab
        /\ ib.operation = "All" => ires.ab

\* q.implies(q) is assured for NONE, ALL, an AND node without sub-queries
\* and an OR node without sub-queries that holds a trigram
PlainNode(q) ==
    \/ q.operation \in {"None", "All"}
    \/ (q.operation = "And" /\ q.sub = <<>>)
    \/ (q.operation = "Or" /\ q.sub = <<>> /\ q.trigram # {})

\* C18 amended: Query::implies is transitive, NONE implies every query and
\* every query implies ALL; q.implies(q) holds for NONE, ALL, every AND
\* node without sub-queries and every OR node without sub-queries that
\* holds at least one trigram.
C18_ImpliesTransitive ==
    ipc = "compared" =>
        /\ PlainNode(ia) => ires.aa
        /\ (ires.ab /\ ires.bc) => ires.ac
        /\ ia.operation = "None" => ires.ab
        /\ ib.operation = "All" => ires.ab

\* C18 witness: a chain of three different queries, none of them NONE or
\* ALL, each implying the next, the first implying itself
C18_Witness ==
    /\ ipc = "compared"
    /\ ia = QAnd({Tabc, Tbcd}, <<>>) /\ ib = QOr({Tabc}, <<>>)
    /\ ic = QOr({Tabc}, <<QAnd({Tbcd, Tbbc}, <<>>)>>)
    /\ ires.aa /\ ires.ab /\ ires.bc /\ ires.ac

\* ------------------------------------------------------------------------
\* Update runs: cindex is run on a source tree while an index exists at
\* the index path (needs_merge).  It writes the new index to <index>~,
\* merges the previous and the new index into <index>~~, removes <index>~,
\* removes the previous index and renames <index>~~ to the index path.
\* Every step can fail (each result is unwrapped, so main panics) and the
\* process can be stopped between any two steps.
\* ------------------------------------------------------------------------
FileOf(data) == [present |-> TRUE, data |-> data]

UInit ==
    /\ upc = "write"
    /\ \E old \in Trees : uold = build_index(old)
    /\ unew \in Trees
    /\ ufs = [index |-> FileOf(uold), new |-> NoFile, dest |-> NoFile]
    /\ LastIdle
    /\ VarintIdle /\ PostIdle /\ WriterIdle /\ MergeIdle /\ RegexIdle
    /\ TrigramIdle /\ QueryIdle /\ ImpliesIdle /\ HeapIdle

\* the worker thread: IndexWriter::new(<index>~), add_paths, add_file for
\* every file, flush
UWriteNew ==
    /\ upc = "write"
    /\ ufs' = [ufs EXCEPT !.new = FileOf(build_index(unew))]
    /\ upc' = "merge"
    /\ UNCHANGED <<lastVars, uold, unew, varintVars, postVars, writerVars, mergeVars,
                   regexVars, trigramVars, queryVars, impliesVars, heapVars>>

\* merge(<index>~~, <index>, <index>~).unwrap()
UMerge ==
    /\ upc = "merge"
    /\ LET m == merge(ufs.index.data, ufs.new.data) IN
         /\ ufs' = [ufs EXCEPT !.dest = FileOf(m.dest)]
         /\ upc' = IF m.panic THEN "stopped" ELSE "remove_new"
    /\ UNCHANGED <<lastVars, uold, unew, varintVars, postVars, writerVars, mergeVars,
                   regexVars, trigramVars, queryVars, impliesVars, heapVars>>

\* fs::remove_file(<index>~)
URemoveNew ==
    /\ upc = "remove_new"
    /\ ufs' = [ufs EXCEPT !.new = NoFile]
    /\ upc' = "remove_old"
    /\ UNCHANGED <<lastVars, uold, unew, varintVars, postVars, writerVars, mergeVars,
                   regexVars, trigramVars, queryVars, impliesVars, heapVars>>

\* fs::remove_file(<index>)
URemoveOld ==
    /\ upc = "remove_old"
    /\ ufs' = [ufs EXCEPT !.index = NoFile]
    /\ upc' = "rename"
    /\ UNCHANGED <<lastVars, uold, unew, varintVars, postVars, writerVars, mergeVars,
                   regexVars, trigramVars, queryVars, impliesVars, heapVars>>

\* fs::rename(<index>~~, <index>)
URename ==
    /\ upc = "rename"
    /\ ufs' = [ufs EXCEPT !.index = ufs.dest, !.dest = NoFile]
    /\ upc' = "done"
    /\ UNCHANGED <<lastVars, uold, unew, varintVars, postVars, writerVars, mergeVars,
                   regexVars, trigramVars, queryVars, impliesVars, heapVars>>

\* the step that comes next fails, or the process is stopped before it
UStop ==
    /\ upc \in {"write", "merge", "remove_new", "remove_old", "rename"}
    /\ upc' = "stopped"
    /\ UNCHANGED <<lastVars, ufs, uold, unew, varintVars, postVars, writerVars, mergeVars,
                   regexVars, trigramVars, queryVars, impliesVars, heapVars>>

UNext == UWriteNew \/ UMerge \/ URemoveNew \/ URemoveOld \/ URename \/ UStop

SpecUpdate == UInit /\ [][UNext]_vars

\* C19: when cindex updates an existing index (writes the new index to
\* <index>~, merges it with the previous index, then replaces the previous
\* index), then if any step fails or the process stops at any point of the
\* sequence, the previous index file is still present at the index path
\* and remains the authoritative index.
C19_PreviousIndexSurvives ==
    upc \in {"write", "merge", "remove_new", "remove_old", "rename", "stopped"} =>
        ufs.index = FileOf(uold)

\* ------------------------------------------------------------------------
\* PostHeap runs: sorted runs are handed to add_mem one after the other and
\* the heap is then iterated to its end (into_iter().collect()).
\* ------------------------------------------------------------------------
MaxHeapRuns == 3

MaxRunLen == 2

HeapEntries == {PostEntry_new(t, id) : t \in 1..3, id \in 0..1}

\* the runs of up to MaxRunLen entries, sorted ascending by (trigram, file-id)
SortedRuns ==
    UNION { {run \in [1..n -> HeapEntries] :
                \A i \in 1..(n - 1) : PostEntryLt(run[i], run[i + 1])} :
            n \in 0..MaxRunLen }

HInit ==
    /\ hpc = "adding"
    /\ hruns = <<>>
    /\ hch = <<>>
    /\ hout = <<>>
    /\ LastIdle
    /\ VarintIdle /\ PostIdle /\ WriterIdle /\ MergeIdle /\ RegexIdle
    /\ TrigramIdle /\ QueryIdle /\ ImpliesIdle /\ UpdateIdle

\* PostHeap::add_mem
HAddMem ==
    /\ hpc = "adding"
    /\ Len(hruns) < MaxHeapRuns
    /\ \E run \in SortedRuns :
           /\ hch' = PostHeap_add_mem(hch, run)
           /\ hruns' = Append(hruns, run)
    /\ UNCHANGED <<lastVars, hpc, hout, varintVars, postVars, writerVars, mergeVars,
                   regexVars, trigramVars, queryVars, impliesVars, updateVars>>

\* into_iter() and IntoIter::next until it returns None
HCollect ==
    /\ hpc = "adding"
    /\ hout' = PostHeap_into_iter(hch)
    /\ hpc' = "collected"
    /\ UNCHANGED <<lastVars, hruns, hch, varintVars, postVars, writerVars, mergeVars,
                   regexVars, trigramVars, queryVars, impliesVars, updateVars>>

HNext == HAddMem \/ HCollect

SpecHeap == HInit /\ [][HNext]_vars

\* how often e occurs in the sequence q
Occurrences(q, e) == Cardinality({i \in 1..Len(q) : q[i] = e})

\* C20: iterating a PostHeap built from any number of runs, each sorted
\* ascending by (trigram, file-id), yields every entry of every run exactly
\* once and in non-decreasing (trigram, file-id) order, so equal trigrams
\* form one contiguous run in the merged stream.
C20_HeapMergesRuns ==
    hpc = "collected" =>
        /\ \A e \in HeapEntries :
               Occurrences(hout, e) = Occurrences(Flatten(hruns), e)
        /\ \A i \in 1..(Len(hout) - 1) : PostEntryLe(hout[i], hout[i + 1])

\* ------------------------------------------------------------------------
\* Decoder runs: read_uvarint is handed a byte string that need not come
\* from an encoder.
\* ------------------------------------------------------------------------
MaxContBytes == 6

ContBytes == {128, 143, 255}

LastBytes == {0, 1, 15, 16, 127}

\* k continuation bytes c, then the bytes of tail
Continued(k, c, tail) == [i \in 1..k |-> c] \o tail

\* terminated inputs of 1..MaxContBytes+1 bytes, and unterminated ones
DecoderInputs ==
    {Continued(k, c, <<l>>) :
        k \in 0..MaxContBytes, c \in ContBytes, l \in LastBytes}
    \cup {Continued(k, c, <<>>) : k \in 0..MaxContBytes, c \in ContBytes}

DInit ==
    /\ dpc = "start"
    /\ dbytes \in DecoderInputs
    /\ dres = NoResult
    /\ VarintIdle /\ PostIdle /\ WriterIdle /\ MergeIdle /\ RegexIdle
    /\ TrigramIdle /\ QueryIdle /\ ImpliesIdle /\ UpdateIdle /\ HeapIdle
    /\ SparseIdle /\ AndOrIdle /\ SimplifyIdle /\ PipeIdle

DDecode ==
    /\ dpc = "start"
    /\ dres' = read_uvarint(dbytes)
    /\ dpc' = "decoded"
    /\ UNCHANGED <<dbytes, varintVars, postVars, writerVars, mergeVars,
                   regexVars, trigramVars, queryVars, impliesVars, updateVars,
                   heapVars, sparseVars, andorVars, simplifyVars, pipeVars>>

DNext == DDecode

SpecDecode == DInit /\ [][DNext]_vars

\* C27: the varint decoder returns an error, instead of a value, for every
\* input in which more than 5 bytes would be consumed before a terminating
\* byte, and for every 5-byte input whose fifth byte carries bits above
\* bit 32 of the value; every value it returns fits in 32 bits.
C27_DecoderIs32Bit ==
    (dpc = "decoded" /\ dres.ok) => (dres.n <= 5 /\ dres.value[1] = 0)

\* ------------------------------------------------------------------------
\* SparseSet runs: insert, clear and take_dense in any order on a set whose
\* sparse vector was never initialised (Vec::set_len without a write), so
\* each slot starts with an arbitrary value.
\* ------------------------------------------------------------------------
MaxElem == 2

SparseElems == 0..MaxElem

\* what an unwritten slot may hold: small values that look like positions
\* in dense, and a value beyond any position
SlotValues == {0, 1, 2, 7}

\* SparseSet::new when the uninitialised vector holds mem
SparseSet_uninit(mem) == [SparseSet_new(0) EXCEPT !.sparse = mem]

SInit ==
    /\ spc = "open"
    /\ \E mem \in [SparseElems -> SlotValues] : sset = SparseSet_uninit(mem)
    /\ sghost = <<>>
    /\ stook = <<>>
    /\ VarintIdle /\ PostIdle /\ WriterIdle /\ MergeIdle /\ RegexIdle
    /\ TrigramIdle /\ QueryIdle /\ ImpliesIdle /\ UpdateIdle /\ HeapIdle
    /\ DecodeIdle /\ AndOrIdle /\ SimplifyIdle /\ PipeIdle

Members(q) == {q[i] : i \in 1..Len(q)}

SInsert ==
    /\ spc = "open"
    /\ \E x \in SparseElems :
           /\ sset' = SparseSet_insert(sset, x)
           /\ sghost' = IF x \in Members(sghost) THEN sghost
                        ELSE Append(sghost, x)
    /\ UNCHANGED <<spc, stook, varintVars, postVars, writerVars, mergeVars,
                   regexVars, trigramVars, queryVars, impliesVars, updateVars,
                   heapVars, decodeVars, andorVars, simplifyVars, pipeVars>>

SClear ==
    /\ spc = "open"
    /\ sset' = SparseSet_clear(sset)
    /\ sghost' = <<>>
    /\ UNCHANGED <<spc, stook, varintVars, postVars, writerVars, mergeVars,
                   regexVars, trigramVars, queryVars, impliesVars, updateVars,
                   heapVars, decodeVars, andorVars, simplifyVars, pipeVars>>

STakeDense ==
    /\ spc = "open"
    /\ sset' = SparseSet_take_dense(sset).set
    /\ stook' = SparseSet_take_dense(sset).out
    /\ sghost' = <<>>
    /\ UNCHANGED <<spc, varintVars, postVars, writerVars, mergeVars,
                   regexVars, trigramVars, queryVars, impliesVars, updateVars,
                   heapVars, decodeVars, andorVars, simplifyVars, pipeVars>>

SNext == SInsert \/ SClear \/ STakeDense

SpecSparse == SInit /\ [][SNext]_vars

\* C24: for any sequence of insert, clear and take_dense operations on a
\* SparseSet, and whatever arbitrary or stale values the never-initialised,
\* never-reset sparse array holds, contains(x) is true exactly when x was
\* inserted since the last clear or take_dense, and the dense vector holds
\* each such x exactly once in order of first insertion.
C24_SparseSetIsSet ==
    spc = "open" =>
        /\ \A x \in SparseElems :
               SparseSet_contains(sset, x) <=> x \in Members(sghost)
        /\ sset.dense = sghost

\* C24 witness: after a clear or take_dense that left stale positions
\* behind, two values were inserted in an order other than the one the
\* stale slots record, and a third slot still holds a stale position that
\* lies inside dense
C24_Witness ==
    /\ spc = "open"
    /\ Len(sghost) = 2
    /\ \E x \in SparseElems :
           /\ x \notin Members(sghost)
           /\ x \in DOMAIN sset.sparse
           /\ sset.sparse[x] < Len(sset.dense)
    /\ Len(stook) = 3

\* ------------------------------------------------------------------------
\* and/or runs: two Query trees are combined with Query::and and Query::or.
\* ------------------------------------------------------------------------
AndOrSamples ==
    ImpliesSamples \cup
    { QOr({Tbcd, Tbbc}, <<>>), QAnd({Tbcd, Tbbc}, <<>>),
      QOr({Tabc, Tbbc}, <<QAnd({Tbcd}, <<>>)>>),
      QAnd({Tabc, Tbbc}, <<QOr({Tbcd}, <<>>)>>) }

AInit ==
    /\ apc = "drawn"
    /\ aq \in AndOrSamples
    /\ ar \in AndOrSamples
    /\ aand = Query_none
    /\ aor = Query_none
    /\ VarintIdle /\ PostIdle /\ WriterIdle /\ MergeIdle /\ RegexIdle
    /\ TrigramIdle /\ QueryIdle /\ ImpliesIdle /\ UpdateIdle /\ HeapIdle
    /\ DecodeIdle /\ SparseIdle /\ SimplifyIdle /\ PipeIdle

\* aq.and(ar) and aq.or(ar)
Combine ==
    /\ apc = "drawn"
    /\ aand' = Query_and(aq, ar)
    /\ aor' = Query_or(aq, ar)
    /\ apc' = "combined"
    /\ UNCHANGED <<aq, ar, varintVars, postVars, writerVars, mergeVars,
                   regexVars, trigramVars, queryVars, impliesVars, updateVars,
                   heapVars, decodeVars, sparseVars, simplifyVars, pipeVars>>

ANext == Combine

SpecAndOr == AInit /\ [][ANext]_vars

\* the trigrams the sample queries mention
AndOrTrigrams == {Tabc, Tbcd, Tbbc}

\* whether q accepts a file in which exactly the trigrams of present occur
RECURSIVE Accepts(_, _)
Accepts(q, present) ==
    IF q.operation = "All" THEN TRUE
    ELSE IF q.operation = "None" THEN FALSE
    ELSE IF q.operation = "And"
    THEN /\ q.trigram \subseteq present
         /\ \A i \in 1..Len(q.sub) : Accepts(q.sub[i], present)
    ELSE \/ q.trigram \cap present # {}
         \/ \E i \in 1..Len(q.sub) : Accepts(q.sub[i], present)

\* and and or are the conjunction and the disjunction under every
\* assignment of present and absent trigrams
CombinedEquivalent ==
    \A present \in SUBSET AndOrTrigrams :
        /\ Accepts(aand, present)
               <=> (Accepts(aq, present) /\ Accepts(ar, present))
        /\ Accepts(aor, present)
               <=> (Accepts(aq, present) \/ Accepts(ar, present))

\* C25 as stated: q.and(r) is logically equivalent to the conjunction of q
\* and r, and q.or(r) to their disjunction, under every assignment of
\* present and absent trigrams; in particular combining a query with itself
\* gives back that query.
C25_AndOrExact ==
    apc = "combined" =>
        /\ CombinedEquivalent
        /\ aq = ar => (aand = aq /\ aor = aq)

\* C25 amended: q.and(r) is logically equivalent to the conjunction of q
\* and r, and q.or(r) to their disjunction, under every assignment of
\* present and absent trigrams; combining a query with itself gives back
\* that query when it is NONE, ALL, an AND node without sub-queries or an
\* OR node without sub-queries that holds a trigram, and a query
\* equivalent to it otherwise.
C25_AndOrEquivalent ==
    apc = "combined" =>
        /\ CombinedEquivalent
        /\ (aq = ar /\ PlainNode(aq)) => (aand = aq /\ aor = aq)

\* C25 witness: an AND of two OR nodes that share a trigram was factored
\* into an OR of the common trigram and a sub-query
C25_Witness ==
    /\ apc = "combined"
    /\ aq = QOr({Tabc, Tbcd}, <<>>)
    /\ ar = QOr({Tbcd, Tbbc}, <<>>)
    /\ aand = QOr({Tbcd}, <<QAnd({Tabc, Tbbc}, <<>>)>>)

\* ------------------------------------------------------------------------
\* simplify_set runs: a prefix set or a suffix set is handed to
\* simplify_set together with the query ALL.
\* ------------------------------------------------------------------------
MaxStrLen == 3

MaxSetSize == 3

SetStrings == UNION { [1..n -> {97, 98}] : n \in 0..MaxStrLen }

StringSets == {S \in SUBSET SetStrings : Cardinality(S) <= MaxSetSize}

ZInit ==
    /\ zpc = "drawn"
    /\ zset \in StringSets
    /\ zsuffix \in BOOLEAN
    /\ zout = {}
    /\ VarintIdle /\ PostIdle /\ WriterIdle /\ MergeIdle /\ RegexIdle
    /\ TrigramIdle /\ QueryIdle /\ ImpliesIdle /\ UpdateIdle /\ HeapIdle
    /\ DecodeIdle /\ SparseIdle /\ AndOrIdle /\ PipeIdle

\* simplify_set(Query::all(), &mut zset, zsuffix)
ZSimplify ==
    /\ zpc = "drawn"
    /\ zout' = simplify_set(Query_all, zset, zsuffix).set
    /\ zpc' = "simplified"
    /\ UNCHANGED <<zset, zsuffix, varintVars, postVars, writerVars, mergeVars,
                   regexVars, trigramVars, queryVars, impliesVars, updateVars,
                   heapVars, decodeVars, sparseVars, andorVars, pipeVars>>

ZNext == ZSimplify

SpecSimplify == ZInit /\ [][ZNext]_vars

\* the set the deduplication starts from: the strings cut to two bytes
CutSet == cut_loop(zset, 3, zsuffix)

\* k is shorter than s and a prefix of it (prefix set) or a suffix of it
\* (suffix set)
ShorterAffix(k, s) ==
    /\ Len(k) < Len(s)
    /\ IF zsuffix THEN ends_with(s, k) ELSE starts_with(s, k)

\* C26: when a prefix set or a suffix set is deduplicated during
\* simplification, a string is dropped only if a shorter string kept in the
\* same set is a prefix of it (for a prefix set) or a suffix of it (for a
\* suffix set); a string that has no such shorter prefix (respectively
\* suffix) in the set is kept.
C26_DropsOnlyRedundant ==
    zpc = "simplified" =>
        /\ zout \subseteq CutSet
        /\ \A s \in CutSet \ zout : \E k \in zout : ShorterAffix(k, s)
        /\ \A s \in CutSet :
               (~\E k \in CutSet : ShorterAffix(k, s)) => s \in zout

\* ------------------------------------------------------------------------
\* cindex runs: the main thread walks the paths and sends every file on an
\* mpsc channel; the writer thread receives, skips what it has seen, hands
\* the rest to add_file, and flushes when the channel is closed.  The two
\* threads take their steps in any order.
\* ------------------------------------------------------------------------
MaxSends == 3

PipePaths == {<<97>>, <<98>>, <<99>>}

WalkOrders == UNION { [1..n -> PipePaths] : n \in 0..MaxSends }

KInit ==
    /\ kpc = "walk"
    /\ kcpc = "recv"
    /\ ktodo \in WalkOrders
    /\ ksent = <<>>
    /\ kchan = <<>>
    /\ kseen = {}
    /\ koffered = <<>>
    /\ VarintIdle /\ PostIdle /\ WriterIdle /\ MergeIdle /\ RegexIdle
    /\ TrigramIdle /\ QueryIdle /\ ImpliesIdle /\ UpdateIdle /\ HeapIdle
    /\ DecodeIdle /\ SparseIdle /\ AndOrIdle /\ SimplifyIdle

\* tx.send(d.path()).unwrap(): the send fails, and main panics, once the
\* writer thread has panicked and dropped rx
KSend ==
    /\ kpc = "walk"
    /\ ktodo # <<>>
    /\ IF kcpc = "panicked"
       THEN kpc' = "panicked" /\ UNCHANGED <<ktodo, ksent, kchan>>
       ELSE /\ kchan' = Append(kchan, Head(ktodo))
            /\ ksent' = Append(ksent, Head(ktodo))
            /\ ktodo' = Tail(ktodo)
            /\ kpc' = kpc
    /\ UNCHANGED <<kcpc, kseen, koffered, varintVars, postVars, writerVars,
                   mergeVars, regexVars, trigramVars, queryVars, impliesVars,
                   updateVars, heapVars, decodeVars, sparseVars, andorVars,
                   simplifyVars>>

\* drop(tx) after the last path has been walked
KDrop ==
    /\ kpc = "walk"
    /\ ktodo = <<>>
    /\ kpc' = "dropped"
    /\ UNCHANGED <<kcpc, ktodo, ksent, kchan, kseen, koffered, varintVars,
                   postVars, writerVars, mergeVars, regexVars, trigramVars,
                   queryVars, impliesVars, updateVars, heapVars, decodeVars,
                   sparseVars, andorVars, simplifyVars>>

\* h.join().unwrap()
KJoin ==
    /\ kpc = "dropped"
    /\ kcpc \in {"done", "panicked"}
    /\ kpc' = IF kcpc = "done" THEN "joined" ELSE "panicked"
    /\ UNCHANGED <<kcpc, ktodo, ksent, kchan, kseen, koffered, varintVars,
                   postVars, writerVars, mergeVars, regexVars, trigramVars,
                   queryVars, impliesVars, updateVars, heapVars, decodeVars,
                   sparseVars, andorVars, simplifyVars>>

\* a test that takes every path for new
unseen_always(seen, f) == TRUE

\* !seen.contains(&f)
unseen(seen, f) == f \notin seen

\* rx.recv() returns Ok(f): f is handed to add_file unless it was seen; an
\* IoError from add_file panics the thread, any other outcome is passed over
KRecv ==
    /\ kcpc = "recv"
    /\ kchan # <<>>
    /\ kchan' = Tail(kchan)
    /\ IF unseen(kseen, Head(kchan))
       THEN /\ koffered' = Append(koffered, Head(kchan))
            /\ \/ kseen' = kseen \cup {Head(kchan)} /\ kcpc' = kcpc
               \/ kseen' = kseen /\ kcpc' = "panicked"
       ELSE UNCHANGED <<koffered, kseen, kcpc>>
    /\ UNCHANGED <<kpc, ktodo, ksent, varintVars, postVars, writerVars,
                   mergeVars, regexVars, trigramVars, queryVars, impliesVars,
                   updateVars, heapVars, decodeVars, sparseVars, andorVars,
                   simplifyVars>>

\* rx.recv() returns Err: the queue is empty and every sender was dropped
KClosed ==
    /\ kcpc = "recv"
    /\ kchan = <<>>
    /\ kpc = "dropped"
    /\ kcpc' = "flush"
    /\ UNCHANGED <<kpc, ktodo, ksent, kchan, kseen, koffered, varintVars,
                   postVars, writerVars, mergeVars, regexVars, trigramVars,
                   queryVars, impliesVars, updateVars, heapVars, decodeVars,
                   sparseVars, andorVars, simplifyVars>>

\* i.flush()
KFlush ==
    /\ kcpc = "flush"
    /\ kcpc' = "done"
    /\ UNCHANGED <<kpc, ktodo, ksent, kchan, kseen, koffered, varintVars,
                   postVars, writerVars, mergeVars, regexVars, trigramVars,
                   queryVars, impliesVars, updateVars, heapVars, decodeVars,
                   sparseVars, andorVars, simplifyVars>>

KNext == KSend \/ KDrop \/ KJoin \/ KRecv \/ KClosed \/ KFlush

SpecPipe == KInit /\ [][KNext]_vars

\* the entries of q without those that occurred earlier in q
RECURSIVE FirstOccurrences(_)
FirstOccurrences(q) ==
    IF q = <<>> THEN <<>>
    ELSE LET front == SubSeq(q, 1, Len(q) - 1)
             rest  == FirstOccurrences(front)
         IN  IF q[Len(q)] \in Members(front) THEN rest
             ELSE Append(rest, q[Len(q)])

\* the paths the writer thread has taken from the channel
Received == SubSeq(ksent, 1, Len(ksent) - Len(kchan))

\* C29: in cindex, under every interleaving of the directory-walking
\* producer and the single writer thread, each distinct path sent by the
\* producer is offered to the writer exactly once, in the order sent, and
\* the index is flushed only after the producer has finished and every sent
\* path has been received; no path is lost and none is added twice.
C29_EachPathOfferedOnce ==
    kpc # "idle" =>
        /\ ksent = Received \o kchan
        /\ koffered = FirstOccurrences(Received)
        /\ kcpc \in {"flush", "done"} =>
               /\ kpc \in {"dropped", "joined"}
               /\ ktodo = <<>>
               /\ kchan = <<>>
               /\ koffered = FirstOccurrences(ksent)

\* C29 witness: three paths were sent, one of them twice, the writer was
\* handed the two distinct ones, flushed, and was joined
C29_Witness ==
    /\ kpc = "joined"
    /\ kcpc = "done"
    /\ Len(ksent) = 3
    /\ Len(koffered) = 2
====
